---- MODULE Spec2Model ----
(***************************************************************************)
(* Qt-Theme-Manager: ThemeLoader (qt/loader.py), StylesheetGenerator       *)
(* (qt/stylesheet.py), ThemeController (qt/controller.py) and QtDetector   *)
(* (qt/detection.py) as one state machine.                                 *)
(*                                                                         *)
(* A Python call that raises is modelled by a result record whose exc      *)
(* field names the exception class ("none" when the call returns).         *)
(* A dict is a function whose DOMAIN is its key set.                       *)
(***************************************************************************)
EXTENDS Integers, Sequences, FiniteSets, TLC

VARIABLES
    file,                \* content of the settings file at loader.config_path
    settings,            \* ThemeLoader._settings
    current_theme_name,  \* ThemeController.current_theme_name
    current_stylesheet,  \* ThemeController.current_stylesheet
    last,                \* the last call on the loader/controller and its outcome
    env,                 \* the Qt bindings installed in the interpreter
    cached_framework,    \* QtDetector._cached_framework
    cached_modules,      \* QtDetector._cached_modules
    detection_attempted, \* QtDetector._detection_attempted
    next_id,             \* identity of the next modules dict to be allocated
    det_last,            \* the last call on the detector and its outcome
    qt_available,        \* controller.qt_available, set when the module is imported
    sink,                \* the widget or application that receives stylesheets
    out,                 \* the file at the output_path of export_qss
    peer,                \* a second ThemeController on the same settings file
    saved,               \* the theme of the last set_theme that saved and returned True
    call                 \* a call of a function without state: arguments and result

themeVars == <<file, settings, current_theme_name, current_stylesheet, last>>
detVars == <<env, cached_framework, cached_modules, detection_attempted,
             next_id, det_last>>
applyVars == <<qt_available, sink>>
\* the variables outside the loader, the controller and the detector
exportVars == <<out>>
peerVars == <<peer, saved>>
pureVars == <<call>>
otherVars == <<applyVars, exportVars, peerVars, pureVars>>
vars == <<file, settings, current_theme_name, current_stylesheet, last,
          env, cached_framework, cached_modules, detection_attempted,
          next_id, det_last, qt_available, sink, out, peer, saved, call>>

-----------------------------------------------------------------------------
(* Theme documents.                                                        *)

EmptyFn == [k \in {} |-> ""]

\* dict.get(key, default)
Get(d, k, default) == IF k \in DOMAIN d THEN d[k] ELSE default

\* A theme document: flat holds the top-level string tokens, comp the
\* top-level component values.  A component value is a dict of tokens
\* (dict = TRUE; nested dicts are written with dotted keys) or some other
\* JSON value such as a string (dict = FALSE).
EmptyTree == [dict |-> TRUE, tok |-> EmptyFn]
ScalarTree == [dict |-> FALSE, tok |-> EmptyFn]

DocLight ==
    [flat |-> [name |-> "light", display_name |-> "Light Theme",
               backgroundColor |-> "#ffffff", textColor |-> "#000000"],
     comp |-> [button |-> [dict |-> TRUE,
                           tok |-> [background |-> "#f0f0f0",
                                    text |-> "#000000",
                                    hover |-> "#e0e0e0"]]]]

DocDark ==
    [flat |-> [name |-> "dark", display_name |-> "Dark Theme",
               backgroundColor |-> "#2d3748", textColor |-> "#ffffff"],
     comp |-> [button |-> [dict |-> TRUE,
                           tok |-> [background |-> "#4a5568",
                                    text |-> "#ffffff",
                                    hover |-> "#0078d4"]]]]

\* {"name": "invalid"}: required keys missing
DocInvalid == [flat |-> [name |-> "invalid"], comp |-> EmptyFn]

\* {}: an empty dict, which Python treats as false
DocEmpty == [flat |-> EmptyFn, comp |-> EmptyFn]

\* all required keys present, but "button" is a string instead of a dict
DocBroken ==
    [flat |-> [name |-> "dark", display_name |-> "Broken Theme",
               backgroundColor |-> "#111111", textColor |-> "#eeeeee"],
     comp |-> [button |-> ScalarTree]]

\* `key in theme_config`
HasKey(doc, k) == k \in (DOMAIN doc.flat) \cup (DOMAIN doc.comp)

\* bool(theme_config)
Truthy(doc) == (DOMAIN doc.flat) \cup (DOMAIN doc.comp) # {}

\* theme_config.get(component, {})
Tree(doc, c) == Get(doc.comp, c, EmptyTree)

-----------------------------------------------------------------------------
(* StylesheetGenerator.  A fragment is the tag of its template followed by *)
(* the token values the template interpolates; a stylesheet is the         *)
(* sequence of its fragments ("\n\n".join) and "" is the empty sequence.   *)

RequiredKeys == {"name", "display_name", "backgroundColor", "textColor"}

validate_theme_config(doc) == \A k \in RequiredKeys : HasKey(doc, k)

BasicComponents == <<"button", "input", "panel", "toolbar", "status", "text">>

_generate_base_styles(doc) ==
    <<"base", Get(doc.flat, "backgroundColor", "#ffffff"),
              Get(doc.flat, "textColor", "#000000")>>

_generate_button_styles(doc) ==
    LET t == Tree(doc, "button").tok
    IN <<"button", Get(t, "background", "#f0f0f0"), Get(t, "text", "#000000"),
         Get(t, "hover", "#e0e0e0"), Get(t, "pressed", "#d0d0d0"),
         Get(t, "border", "#cccccc")>>

_generate_input_styles(doc) ==
    LET t == Tree(doc, "input").tok
    IN <<"input", Get(t, "background", "#ffffff"), Get(t, "text", "#000000"),
         Get(t, "border", "#cccccc"), Get(t, "focus", "#0078d4"),
         Get(t, "placeholder", "#888888")>>

_generate_panel_styles(doc) ==
    LET t == Tree(doc, "panel").tok
        bg == Get(t, "background", "#f8f8f8")
    IN <<"panel", bg, Get(t, "border", "#ddd"),
         Get(t, "header.background", "#e2e8f0"),
         Get(t, "header.text", "#2d3748"),
         Get(t, "header.border", "#cbd5e0"),
         Get(t, "zebra.alternate", bg)>>

_generate_toolbar_styles(doc) ==
    LET t == Tree(doc, "toolbar").tok
    IN <<"toolbar", Get(t, "background", "#f7fafc"), Get(t, "text", "#2d3748"),
         Get(t, "border", "#e2e8f0"),
         Get(t, "button.background", "#ffffff"),
         Get(t, "button.text", "#2d3748"),
         Get(t, "button.hover", "#0078d4"),
         Get(t, "button.pressed", "#e2e8f0")>>

_generate_status_styles(doc) ==
    LET t == Tree(doc, "status").tok
    IN <<"status", Get(t, "background", "#f7fafc"), Get(t, "text", "#4a5568"),
         Get(t, "border", "#e2e8f0")>>

_generate_text_styles(doc) ==
    LET t == Tree(doc, "text").tok
    IN <<"text", Get(t, "primary", "#2d3748"), Get(t, "secondary", "#4a5568"),
         Get(t, "muted", "#718096"), Get(t, "heading", "#1a202c"),
         Get(t, "link", "#0078d4"), Get(t, "success", "#38a169"),
         Get(t, "warning", "#d69e2e"), Get(t, "error", "#e53e3e")>>

_generate_basic_qss(doc) ==
    <<_generate_base_styles(doc), _generate_button_styles(doc),
      _generate_input_styles(doc), _generate_panel_styles(doc),
      _generate_toolbar_styles(doc), _generate_status_styles(doc),
      _generate_text_styles(doc)>>

\* generate_qss with advanced_mode = False (the controller's only use).
\* .get on a component value that is not a dict raises AttributeError.
generate_qss(doc) ==
    IF \E i \in DOMAIN BasicComponents : ~Tree(doc, BasicComponents[i]).dict
    THEN [exc |-> "AttributeError", qss |-> <<>>]
    ELSE [exc |-> "none", qss |-> _generate_basic_qss(doc)]

-----------------------------------------------------------------------------
(* The settings file and ThemeLoader.                                      *)

Missing == "<missing>"      \* a key the catalog does not have

\* the catalog {} (no current_theme, no last_selected_theme, no themes)
NoCatalog == [current_theme |-> Missing, last_selected_theme |-> Missing,
              available_themes |-> EmptyFn]

NotLoaded == [loaded |-> FALSE, cat |-> NoCatalog]       \* _settings is None

Loaded(cat) == [loaded |-> TRUE, cat |-> cat]

\* File contents: no file, text that is not JSON, the JSON text "null",
\* a JSON object (the catalog cat), or the prefix left by a failed write.
FileAbsent == [kind |-> "absent", cat |-> NoCatalog]
FileMalformed == [kind |-> "malformed", cat |-> NoCatalog]
FileNull == [kind |-> "null", cat |-> NoCatalog]
FilePartial == [kind |-> "partial", cat |-> NoCatalog]
FileJson(cat) == [kind |-> "json", cat |-> cat]

load_settings(f, s) ==
    IF f.kind = "absent" THEN [settings |-> s, exc |-> "FileNotFoundError"]
    ELSE IF f.kind \in {"malformed", "partial"}
         THEN [settings |-> s, exc |-> "ValueError"]
    ELSE IF f.kind = "null"
         \* self._settings = json.load(f) has assigned None before the raise
         THEN [settings |-> NotLoaded, exc |-> "ValueError"]
    ELSE [settings |-> Loaded(f.cat), exc |-> "none"]

\* `if self._settings is None: self.load_settings()`
EnsureLoaded(f, s) ==
    IF s.loaded THEN [settings |-> s, exc |-> "none"] ELSE load_settings(f, s)

get_available_themes(f, s) ==
    LET r == EnsureLoaded(f, s)
    IN [settings |-> r.settings, exc |-> r.exc,
        val |-> IF r.exc = "none" THEN r.settings.cat.available_themes
                ELSE EmptyFn]

get_current_theme(f, s) ==
    LET r == EnsureLoaded(f, s)
        c == r.settings.cat.current_theme
    IN [settings |-> r.settings, exc |-> r.exc,
        val |-> IF r.exc = "none" /\ c # Missing THEN c ELSE "light"]

\* available_themes.get(theme_name): found = FALSE is None
get_theme_config(f, s, theme_name) ==
    LET r == get_available_themes(f, s)
    IN [settings |-> r.settings, exc |-> r.exc,
        found |-> theme_name \in DOMAIN r.val,
        doc |-> Get(r.val, theme_name, DocEmpty)]

\* The outcome of writing the file, decided by the file system:
\*   "ok"      the write completes;
\*   "denied"  mkdir or open raises, the file is untouched;
\*   "partial" open(path, "w") has truncated the file and json.dump raises.
WriteOutcomes == {"ok", "denied", "partial"}

save_settings(f, s, cat, w) ==
    IF w = "ok"
    THEN [file |-> FileJson(cat), settings |-> Loaded(cat), exc |-> "none"]
    ELSE IF w = "denied"
    THEN [file |-> f, settings |-> s, exc |-> "OSError"]
    ELSE [file |-> FilePartial, settings |-> s, exc |-> "OSError"]

\* ThemeLoader.reload_themes
loader_reload_themes(f, s) == load_settings(f, NotLoaded)

\* as update_current_theme, but last_selected_theme is not updated
MutUpdateForgetsLast(f, s, theme_name, w) ==
    LET r == EnsureLoaded(f, s)
        cat == [r.settings.cat EXCEPT !.current_theme = theme_name]
    IN IF r.exc # "none"
       THEN [file |-> f, settings |-> r.settings, exc |-> r.exc]
       ELSE IF theme_name \notin DOMAIN r.settings.cat.available_themes
       THEN [file |-> f, settings |-> r.settings, exc |-> "ValueError"]
       ELSE save_settings(f, Loaded(cat), cat, w)

update_current_theme(f, s, theme_name, w) ==
    LET r == EnsureLoaded(f, s)
        cat == [r.settings.cat EXCEPT !.current_theme = theme_name,
                                      !.last_selected_theme = theme_name]
    IN IF r.exc # "none"
       THEN [file |-> f, settings |-> r.settings, exc |-> r.exc]
       ELSE IF theme_name \notin DOMAIN r.settings.cat.available_themes
       THEN [file |-> f, settings |-> r.settings, exc |-> "ValueError"]
       \* self._settings is mutated in place before save_settings is called
       ELSE save_settings(f, Loaded(cat), cat, w)

-----------------------------------------------------------------------------
(* ThemeController.                                                        *)

Fallback(s) == [settings |-> s, name |-> "fallback", qss |-> <<>>]

Sentinels == {"fallback", "error"}

\* as _load_current_theme, but a failure after the name was assigned is
\* swallowed without calling _load_fallback_theme
MutLoadCurrentNoFallback(f, s) ==
    LET r == get_current_theme(f, s)
        c == get_theme_config(f, r.settings, r.val)
        g == generate_qss(c.doc)
    IN IF r.exc # "none" THEN Fallback(r.settings)
       ELSE IF c.found /\ Truthy(c.doc) /\ g.exc = "none"
       THEN [settings |-> c.settings, name |-> r.val, qss |-> g.qss]
       ELSE [settings |-> c.settings, name |-> r.val, qss |-> <<>>]

\* _load_current_theme followed, on any exception, by _load_fallback_theme
_load_current_theme(f, s) ==
    LET r == get_current_theme(f, s)
        c == get_theme_config(f, r.settings, r.val)
        g == generate_qss(c.doc)
    IN IF r.exc # "none" THEN Fallback(r.settings)
       ELSE IF c.found /\ Truthy(c.doc) /\ g.exc = "none"
       THEN [settings |-> c.settings, name |-> r.val, qss |-> g.qss]
       ELSE Fallback(c.settings)

\* ThemeController.__init__: a new loader (_settings = None), then
\* _load_current_theme
NewController(f) == _load_current_theme(f, NotLoaded)

\* the controller and its surroundings after a set_theme call
SetResult(f, s, n, q, ret, why) ==
    [file |-> f, settings |-> s, name |-> n, qss |-> q, ret |-> ret, why |-> why]

\* as set_theme, but current_theme_name is assigned before the look-up
MutSetThemeAssignsFirst(f, s, n, q, theme_name, save, w) ==
    LET c == get_theme_config(f, s, theme_name)
        g == generate_qss(c.doc)
        u == update_current_theme(f, c.settings, theme_name, w)
    IN IF c.exc # "none"
       THEN SetResult(f, c.settings, theme_name, q, FALSE, "load_raised")
       ELSE IF ~(c.found /\ Truthy(c.doc))
       THEN SetResult(f, c.settings, theme_name, q, FALSE, "not_found")
       ELSE IF ~validate_theme_config(c.doc)
       THEN SetResult(f, c.settings, theme_name, q, FALSE, "invalid")
       ELSE IF g.exc # "none"
       THEN SetResult(f, c.settings, theme_name, q, FALSE, "generate_raised")
       ELSE IF ~save
       THEN SetResult(f, c.settings, theme_name, g.qss, TRUE, "set")
       ELSE SetResult(u.file, u.settings, theme_name, g.qss, u.exc = "none",
                      IF u.exc = "none" THEN "set" ELSE "save_raised")

\* as set_theme, but current_theme_name is assigned before the stylesheet
\* is generated, so a raising generate_qss leaves the new name in place
MutSetThemeNameBeforeGenerate(f, s, n, q, theme_name, save, w) ==
    LET c == get_theme_config(f, s, theme_name)
        g == generate_qss(c.doc)
        u == update_current_theme(f, c.settings, theme_name, w)
    IN IF c.exc # "none"
       THEN SetResult(f, c.settings, n, q, FALSE, "load_raised")
       ELSE IF ~(c.found /\ Truthy(c.doc))
       THEN SetResult(f, c.settings, n, q, FALSE, "not_found")
       ELSE IF ~validate_theme_config(c.doc)
       THEN SetResult(f, c.settings, n, q, FALSE, "invalid")
       ELSE IF g.exc # "none"
       THEN SetResult(f, c.settings, theme_name, q, FALSE, "generate_raised")
       ELSE IF ~save
       THEN SetResult(f, c.settings, theme_name, g.qss, TRUE, "set")
       ELSE SetResult(u.file, u.settings, theme_name, g.qss, u.exc = "none",
                      IF u.exc = "none" THEN "set" ELSE "save_raised")

\* as set_theme, but the new stylesheet is appended to the one in place
MutSetThemeAppends(f, s, n, q, theme_name, save, w) ==
    LET c == get_theme_config(f, s, theme_name)
        g == generate_qss(c.doc)
        u == update_current_theme(f, c.settings, theme_name, w)
    IN IF c.exc # "none"
       THEN SetResult(f, c.settings, n, q, FALSE, "load_raised")
       ELSE IF ~(c.found /\ Truthy(c.doc))
       THEN SetResult(f, c.settings, n, q, FALSE, "not_found")
       ELSE IF ~validate_theme_config(c.doc)
       THEN SetResult(f, c.settings, n, q, FALSE, "invalid")
       ELSE IF g.exc # "none"
       THEN SetResult(f, c.settings, n, q, FALSE, "generate_raised")
       ELSE IF ~save
       THEN SetResult(f, c.settings, theme_name, q \o g.qss, TRUE, "set")
       \* the two assignments precede update_current_theme
       ELSE SetResult(u.file, u.settings, theme_name, q \o g.qss, u.exc = "none",
                      IF u.exc = "none" THEN "set" ELSE "save_raised")

\* ThemeController.set_theme.  n and q are current_theme_name and
\* current_stylesheet at the call; w is the outcome of the file write.
set_theme(f, s, n, q, theme_name, save, w) ==
    LET c == get_theme_config(f, s, theme_name)
        g == generate_qss(c.doc)
        u == update_current_theme(f, c.settings, theme_name, w)
    IN IF c.exc # "none"
       THEN SetResult(f, c.settings, n, q, FALSE, "load_raised")
       ELSE IF ~(c.found /\ Truthy(c.doc))
       THEN SetResult(f, c.settings, n, q, FALSE, "not_found")
       ELSE IF ~validate_theme_config(c.doc)
       THEN SetResult(f, c.settings, n, q, FALSE, "invalid")
       ELSE IF g.exc # "none"
       THEN SetResult(f, c.settings, n, q, FALSE, "generate_raised")
       ELSE IF ~save
       THEN SetResult(f, c.settings, theme_name, g.qss, TRUE, "set")
       \* the two assignments precede update_current_theme
       ELSE SetResult(u.file, u.settings, theme_name, g.qss, u.exc = "none",
                      IF u.exc = "none" THEN "set" ELSE "save_raised")

ReloadResult(s, n, q, ret) ==
    [settings |-> s, name |-> n, qss |-> q, ret |-> ret]

\* ThemeController.reload_themes
reload_themes(f, s, n, q) ==
    LET r == loader_reload_themes(f, s)
        l == _load_current_theme(f, r.settings)
    IN IF r.exc # "none"
       THEN ReloadResult(r.settings, n, q, FALSE)
       ELSE ReloadResult(l.settings, l.name, l.qss, TRUE)

-----------------------------------------------------------------------------
(* Inputs.                                                                 *)

ThemeNames == {"light", "dark"}

\* theme names passed by callers
ArgNames == ThemeNames \cup {"nonexistent"}

\* the available_themes maps of the settings files considered
ThemeMaps ==
    { [light |-> DocLight, dark |-> DocDark],
      [light |-> DocLight],
      [light |-> DocInvalid, dark |-> DocDark],
      [light |-> DocLight, dark |-> DocBroken],
      [light |-> DocEmpty, dark |-> DocDark] }

\* the catalogs of the settings files considered
Catalogs ==
    { [current_theme |-> c, last_selected_theme |-> l, available_themes |-> m] :
        c \in ThemeNames \cup {Missing}, l \in ThemeNames \cup {Missing},
        m \in ThemeMaps }

FileCatalogs == { cat \in Catalogs :
                    cat.last_selected_theme \in {cat.current_theme, Missing} }

\* what the settings file can hold when the program is started or after
\* another program has written it
ExternalFiles ==
    {FileAbsent, FileMalformed, FileNull} \cup { FileJson(cat) : cat \in FileCatalogs }

NoCall == [op |-> "init", arg |-> "", save |-> FALSE, ret |-> "", why |-> ""]

Call(op, arg, save, ret, why) ==
    [op |-> op, arg |-> arg, save |-> save, ret |-> ret, why |-> why]

Bool(b) == IF b THEN "True" ELSE "False"

\* what a call returned or raised
Outcome(exc) == IF exc = "none" THEN "None" ELSE "raised"

-----------------------------------------------------------------------------
(* Actions on the controller.                                              *)

\* controller = ThemeController(config_path)
Construct ==
    LET c == NewController(file)
    IN /\ settings' = c.settings
       /\ current_theme_name' = c.name
       /\ current_stylesheet' = c.qss
       /\ last' = Call("__init__", "", FALSE, "None", "")
       /\ UNCHANGED <<file, detVars, otherVars>>

\* controller.set_theme(theme_name, save_settings)
SetTheme ==
    \E theme_name \in ArgNames, save \in BOOLEAN, w \in WriteOutcomes :
        LET r == set_theme(file, settings, current_theme_name,
                           current_stylesheet, theme_name, save, w)
        IN /\ (~save => w = "ok")
           /\ file' = r.file
           /\ settings' = r.settings
           /\ current_theme_name' = r.name
           /\ current_stylesheet' = r.qss
           /\ last' = Call("set_theme", theme_name, save, Bool(r.ret), r.why)
           /\ UNCHANGED <<detVars, otherVars>>

\* controller.reload_themes()
ReloadThemes ==
    LET r == reload_themes(file, settings, current_theme_name,
                           current_stylesheet)
    IN /\ settings' = r.settings
       /\ current_theme_name' = r.name
       /\ current_stylesheet' = r.qss
       /\ last' = Call("reload_themes", "", FALSE, Bool(r.ret), "")
       /\ UNCHANGED <<file, detVars, otherVars>>

\* another program rewrites or removes the settings file
ExternalWrite ==
    /\ \E f \in ExternalFiles : file' = f
    /\ file' # file
    /\ last' = Call("external_write", "", FALSE, "", "")
    /\ UNCHANGED <<settings, current_theme_name, current_stylesheet, detVars, otherVars>>

-----------------------------------------------------------------------------
(* Actions on a ThemeLoader used on its own.                               *)

\* loader.load_settings()
LoadSettings ==
    LET r == load_settings(file, settings)
    IN /\ settings' = r.settings
       /\ last' = Call("load_settings", "", FALSE, Outcome(r.exc), r.exc)
       /\ UNCHANGED <<file, current_theme_name, current_stylesheet, detVars, otherVars>>

\* loader.get_current_theme(), loader.get_available_themes(),
\* loader.get_theme_config(name): each loads the file when nothing is cached
GetCurrentTheme ==
    LET r == get_current_theme(file, settings)
    IN /\ settings' = r.settings
       /\ last' = Call("get_current_theme",
                       IF r.exc = "none" THEN r.val ELSE "", FALSE,
                       Outcome(r.exc), r.exc)
       /\ UNCHANGED <<file, current_theme_name, current_stylesheet, detVars, otherVars>>

\* loader.reload_themes()
LoaderReloadThemes ==
    LET r == loader_reload_themes(file, settings)
    IN /\ settings' = r.settings
       /\ last' = Call("loader.reload_themes", "", FALSE, Outcome(r.exc), r.exc)
       /\ UNCHANGED <<file, current_theme_name, current_stylesheet, detVars, otherVars>>

\* loader.update_current_theme(theme_name)
UpdateCurrentTheme ==
    \E theme_name \in ArgNames, w \in WriteOutcomes :
        LET r == update_current_theme(file, settings, theme_name, w)
        IN /\ file' = r.file
           /\ settings' = r.settings
           /\ last' = Call("update_current_theme", theme_name, TRUE,
                           Outcome(r.exc), r.exc)
           /\ UNCHANGED <<current_theme_name, current_stylesheet, detVars, otherVars>>

\* loader.save_settings(settings) with a catalog supplied by the caller
SaveSettings ==
    \E cat \in FileCatalogs, w \in WriteOutcomes :
        LET r == save_settings(file, settings, cat, w)
        IN /\ file' = r.file
           /\ settings' = r.settings
           /\ last' = Call("save_settings", "", TRUE, Outcome(r.exc), r.exc)
           /\ UNCHANGED <<current_theme_name, current_stylesheet, detVars, otherVars>>

-----------------------------------------------------------------------------
(* QtDetector.                                                             *)

\* A version string split on ".": ok says that every component is an
\* integer literal, parts holds the integers (empty when ok is FALSE).
Version(parts) == [ok |-> TRUE, parts |-> parts]
Unparsable == [ok |-> FALSE, parts |-> <<>>]

\* MIN_VERSIONS
MIN_VERSIONS == [PySide6 |-> Version(<<6, 0, 0>>),
                 PyQt6 |-> Version(<<6, 2, 0>>),
                 PyQt5 |-> Version(<<5, 15, 0>>)]

\* the order in which detect_qt_framework tries the bindings
Bindings == <<"PySide6", "PyQt6", "PyQt5">>

Max(a, b) == IF a >= b THEN a ELSE b

\* parts.extend([0] * (max_len - len(parts)))
Pad(parts, n) == [i \in 1..n |-> IF i <= Len(parts) THEN parts[i] ELSE 0]

\* as ListLess, but only the first components are compared
MutCompareFirstOnly(a, b) == a[1] < b[1]

\* Python's list `a < b` on lists of equal length
ListLess(a, b) ==
    \E i \in 1..Len(a) : a[i] < b[i] /\ \A j \in 1..(i - 1) : a[j] = b[j]

\* _validate_version: TRUE when QtVersionError is raised
_validate_version(current, required) ==
    LET n == Max(Len(current.parts), Len(required.parts))
    IN /\ current.ok
       /\ required.ok
       /\ ListLess(Pad(current.parts, n), Pad(required.parts, n))

NotInstalled == [present |-> FALSE, version |-> Unparsable]
Installed(v) == [present |-> TRUE, version |-> v]

\* as _try, but without the call of _validate_version
MutTryNoVersionCheck(e, b) ==
    IF ~e[b].present THEN [exc |-> "ImportError", version |-> Unparsable]
    ELSE [exc |-> "none", version |-> e[b].version]

\* _try_pyside6, _try_pyqt6, _try_pyqt5 in environment e: the import
\* fails, or the version is refused (QtVersionError is an ImportError and
\* leaves as one), or the binding's modules are returned
_try(e, b) ==
    IF ~e[b].present THEN [exc |-> "ImportError", version |-> Unparsable]
    ELSE IF _validate_version(e[b].version, MIN_VERSIONS[b])
    THEN [exc |-> "ImportError", version |-> Unparsable]
    ELSE [exc |-> "none", version |-> e[b].version]

\* a modules dict: id is its identity, 0 standing for None
NoModules == [id |-> 0, framework |-> "None", version |-> Unparsable]
Modules(id, b, v) == [id |-> id, framework |-> b, version |-> v]

DetResult(cf, cm, da, nid, exc, framework, modules, probed) ==
    [cached_framework |-> cf, cached_modules |-> cm,
     detection_attempted |-> da, next_id |-> nid, exc |-> exc,
     framework |-> framework, modules |-> modules, probed |-> probed]

\* _cache_result and the return that follows it
Found(b, v, nid) ==
    DetResult(b, Modules(nid, b, v), TRUE, nid + 1, "none", b,
              Modules(nid, b, v), TRUE)

\* as detect_qt_framework, but the cache is never consulted
MutDetectIgnoresCache(e, cf, cm, da, nid, force_redetect) ==
    LET t1 == _try(e, "PySide6")
        t2 == _try(e, "PyQt6")
        t3 == _try(e, "PyQt5")
    IN IF t1.exc = "none" THEN Found("PySide6", t1.version, nid)
       ELSE IF t2.exc = "none" THEN Found("PyQt6", t2.version, nid)
       ELSE IF t3.exc = "none" THEN Found("PyQt5", t3.version, nid)
       ELSE DetResult(cf, cm, TRUE, nid, "QtFrameworkNotFoundError",
                      "None", NoModules, TRUE)

\* QtDetector.detect_qt_framework(force_redetect) in environment e with
\* cache cf, cm
detect_qt_framework(e, cf, cm, da, nid, force_redetect) ==
    LET t1 == _try(e, "PySide6")
        t2 == _try(e, "PyQt6")
        t3 == _try(e, "PyQt5")
    IN IF ~force_redetect /\ cf # "None" /\ cm.id # 0
       THEN DetResult(cf, cm, da, nid, "none", cf, cm, FALSE)
       ELSE IF t1.exc = "none" THEN Found("PySide6", t1.version, nid)
       ELSE IF t2.exc = "none" THEN Found("PyQt6", t2.version, nid)
       ELSE IF t3.exc = "none" THEN Found("PyQt5", t3.version, nid)
       ELSE DetResult(cf, cm, TRUE, nid, "QtFrameworkNotFoundError",
                      "None", NoModules, TRUE)

\* the exception classes caught by is_qt_available
AvailabilityCaught == {"QtFrameworkNotFoundError", "QtVersionError"}

\* as is_qt_available, but only QtVersionError is caught
MutAvailableCatchesVersionOnly(e, cf, cm, da, nid) ==
    LET r == detect_qt_framework(e, cf, cm, da, nid, FALSE)
    IN [det |-> r, ret |-> r.exc = "none",
        raised |-> IF r.exc = "QtVersionError" THEN "none" ELSE r.exc]

\* QtDetector.is_qt_available: det is the inner detect_qt_framework() call,
\* ret the value returned, raised the exception that leaves the method
is_qt_available(e, cf, cm, da, nid) ==
    LET r == detect_qt_framework(e, cf, cm, da, nid, FALSE)
    IN [det |-> r, ret |-> r.exc = "none",
        raised |-> IF r.exc \in AvailabilityCaught THEN "none" ELSE r.exc]

-----------------------------------------------------------------------------
(* Detector inputs and actions.                                            *)

\* how many modules dicts the detector may allocate
MaxModules == 3

\* the installations considered for each binding
Installs ==
    [PySide6 |-> {NotInstalled, Installed(Version(<<5, 15, 2>>)),
                  Installed(Version(<<6, 0, 0>>)), Installed(Version(<<6, 5>>)),
                  Installed(Unparsable)},
     PyQt6 |-> {NotInstalled, Installed(Version(<<6, 1, 9>>)),
                Installed(Version(<<6, 2, 0>>))},
     PyQt5 |-> {NotInstalled, Installed(Version(<<5, 14>>)),
                Installed(Version(<<5, 15, 0>>))}]

BindingNames == {"PySide6", "PyQt6", "PyQt5"}

Envs == { e \in [BindingNames -> UNION {Installs[b] : b \in BindingNames}] :
            \A b \in BindingNames : e[b] \in Installs[b] }

\* exc is what detect_qt_framework raised, raised what left the method
\* called, ret the value of is_qt_available ("" for the other calls)
DetCall(op, force, r, ret, raised) ==
    [op |-> op, force |-> force, exc |-> r.exc, framework |-> r.framework,
     modules |-> r.modules, probed |-> r.probed, ret |-> ret,
     raised |-> raised]

NoDetCall ==
    [op |-> "init", force |-> FALSE, exc |-> "none", framework |-> "None",
     modules |-> NoModules, probed |-> FALSE, ret |-> "", raised |-> "none"]

\* detector.detect_qt_framework(force_redetect)
DetectQtFramework ==
    \E force_redetect \in BOOLEAN :
        LET r == detect_qt_framework(env, cached_framework, cached_modules,
                                     detection_attempted, next_id, force_redetect)
        IN /\ next_id <= MaxModules
           /\ cached_framework' = r.cached_framework
           /\ cached_modules' = r.cached_modules
           /\ detection_attempted' = r.detection_attempted
           /\ next_id' = r.next_id
           /\ det_last' = DetCall("detect_qt_framework", force_redetect, r, "",
                                r.exc)
           /\ UNCHANGED <<env, themeVars, otherVars>>

\* detector.is_qt_available()
IsQtAvailable ==
    LET a == is_qt_available(env, cached_framework, cached_modules,
                             detection_attempted, next_id)
        r == a.det
    IN /\ next_id <= MaxModules
       /\ cached_framework' = r.cached_framework
       /\ cached_modules' = r.cached_modules
       /\ detection_attempted' = r.detection_attempted
       /\ next_id' = r.next_id
       /\ det_last' = DetCall("is_qt_available", FALSE, r, Bool(a.ret),
                              a.raised)
       /\ UNCHANGED <<env, themeVars, otherVars>>

\* detector.clear_cache()
ClearCache ==
    /\ cached_framework' = "None"
    /\ cached_modules' = NoModules
    /\ detection_attempted' = FALSE
    /\ det_last' = [NoDetCall EXCEPT !.op = "clear_cache"]
    /\ UNCHANGED <<env, next_id, themeVars, otherVars>>

\* a binding is installed, upgraded, downgraded or removed
EnvChange ==
    /\ \E b \in BindingNames :
           \E i \in Installs[b] :
               /\ i # env[b]
               /\ env' = [env EXCEPT ![b] = i]
    /\ det_last' = [NoDetCall EXCEPT !.op = "env_change"]
    /\ UNCHANGED <<cached_framework, cached_modules, detection_attempted,
                   next_id, themeVars, otherVars>>

-----------------------------------------------------------------------------
(* Specifications.                                                         *)

\* no detector call has been made
DetectorIdle ==
    /\ env = [b \in BindingNames |-> NotInstalled]
    /\ cached_framework = "None"
    /\ cached_modules = NoModules
    /\ detection_attempted = FALSE
    /\ next_id = 1
    /\ det_last = NoDetCall

\* the controller module is not imported and nothing has been applied
ApplyIdle ==
    /\ qt_available = FALSE
    /\ sink = [n |-> 0, text |-> <<>>]

\* nothing at output_path, not even its parent directory
NoOutput == [dirs |-> FALSE, state |-> "absent", content |-> <<>>]

ExportIdle == out = NoOutput

NoPeer == [settings |-> NotLoaded, name |-> "", qss |-> <<>>]

PeerIdle == peer = NoPeer /\ saved = ""

NoPure == [op |-> "none"]

PureIdle == call = NoPure

OtherIdle == ApplyIdle /\ ExportIdle /\ PeerIdle /\ PureIdle

\* no loader or controller exists
ThemeIdle ==
    /\ file = FileAbsent
    /\ settings = NotLoaded
    /\ current_theme_name = ""
    /\ current_stylesheet = <<>>
    /\ last = NoCall

\* a ThemeController has been constructed on some settings file
Init ==
    /\ file \in ExternalFiles
    /\ settings = NewController(file).settings
    /\ current_theme_name = NewController(file).name
    /\ current_stylesheet = NewController(file).qss
    /\ last = Call("__init__", "", FALSE, "None", "")
    /\ DetectorIdle
    /\ OtherIdle

Next == Construct \/ SetTheme \/ ReloadThemes \/ ExternalWrite

Spec == Init /\ [][Next]_vars

\* a ThemeLoader has been constructed on some settings file
InitLoader ==
    /\ file \in ExternalFiles
    /\ settings = NotLoaded
    /\ current_theme_name = ""
    /\ current_stylesheet = <<>>
    /\ last = NoCall
    /\ DetectorIdle
    /\ OtherIdle

NextLoader ==
    \/ LoadSettings
    \/ GetCurrentTheme
    \/ LoaderReloadThemes
    \/ UpdateCurrentTheme
    \/ SaveSettings
    \/ ExternalWrite

SpecLoader == InitLoader /\ [][NextLoader]_vars

\* a QtDetector has been constructed in some environment
InitDetector ==
    /\ env \in Envs
    /\ cached_framework = "None"
    /\ cached_modules = NoModules
    /\ detection_attempted = FALSE
    /\ next_id = 1
    /\ det_last = NoDetCall
    /\ ThemeIdle
    /\ OtherIdle

NextDetector == DetectQtFramework \/ IsQtAvailable \/ ClearCache \/ EnvChange

SpecDetector == InitDetector /\ [][NextDetector]_vars

-----------------------------------------------------------------------------
(* Properties of ThemeController and ThemeLoader.                          *)

\* the theme names the loader serves: the keys of available_themes in its
\* cached catalog or, when nothing is cached, in the settings file
AvailableKeys(f, s) ==
    IF s.loaded THEN DOMAIN s.cat.available_themes
    ELSE IF f.kind = "json" THEN DOMAIN f.cat.available_themes
    ELSE {}

\* the catalog the loader serves, when there is one
ServedCatalog(f, s) == IF s.loaded THEN s.cat ELSE f.cat

\* C1: a set_theme call that returns False leaves current_theme_name and
\* current_stylesheet exactly as they were before the call.
C1_FailedSetThemeKeepsState ==
    [][(last'.op = "set_theme" /\ last'.ret = "False")
         => /\ current_theme_name' = current_theme_name
            /\ current_stylesheet' = current_stylesheet]_vars

\* C2: set_theme with a name that is not a key of the available themes
\* returns False and leaves current_theme_name unchanged, whether the
\* controller is Loaded or in Fallback.
C2_UnknownThemeRejected ==
    [][(last'.op = "set_theme" /\ last'.arg \notin AvailableKeys(file, settings))
         => /\ last'.ret = "False"
            /\ current_theme_name' = current_theme_name]_vars

C2_Witness ==
    /\ last.op = "set_theme"
    /\ last.arg = "nonexistent"
    /\ last.why = "not_found"
    /\ last.ret = "False"
    /\ current_theme_name = "light"

\* C3: after construction on any settings file the controller holds either
\* the catalog's current theme name with the stylesheet generated from that
\* theme, or a sentinel name with the empty stylesheet.
C3_ConstructionLoadsOrFallsBack ==
    last.op = "__init__" =>
        \/ /\ current_theme_name \in Sentinels
           /\ current_stylesheet = <<>>
        \/ /\ file.kind = "json"
           /\ current_theme_name =
                  (IF file.cat.current_theme = Missing THEN "light"
                   ELSE file.cat.current_theme)
           /\ current_theme_name \in DOMAIN file.cat.available_themes
           /\ generate_qss(file.cat.available_themes[current_theme_name]).exc = "none"
           /\ current_stylesheet =
                  generate_qss(file.cat.available_themes[current_theme_name]).qss

C3_Witness ==
    /\ last.op = "__init__"
    /\ file.kind = "json"
    /\ file.cat.current_theme = "dark"
    /\ current_theme_name = "fallback"
    /\ current_stylesheet = <<>>

\* C4: whenever construction, set_theme or reload_themes has made a theme
\* current (current_theme_name is not a sentinel), the document of that
\* theme passes validate_theme_config.
C4_CurrentThemeValidated ==
    (/\ last.op \in {"__init__", "set_theme", "reload_themes"}
     /\ last.ret # "False"
     /\ current_theme_name \notin Sentinels)
        => /\ settings.loaded
           /\ current_theme_name \in DOMAIN settings.cat.available_themes
           /\ validate_theme_config(settings.cat.available_themes[current_theme_name])

\* C5: when ThemeLoader.reload_themes raises, the loader's in-memory
\* catalog is the one it held before the call.
C5_FailedReloadKeepsCatalog ==
    [][(last'.op = "loader.reload_themes" /\ last'.ret = "raised")
         => settings' = settings]_vars

\* C6: after any ThemeController.reload_themes call the controller holds
\* what a controller freshly constructed on the same settings file holds.
C6_ReloadEqualsConstruction ==
    last.op = "reload_themes" =>
        /\ current_theme_name = NewController(file).name
        /\ current_stylesheet = NewController(file).qss

\* C7: update_current_theme(name) raises and changes neither the catalog
\* nor the file when name is not an available theme; when it returns,
\* current_theme and last_selected_theme equal name in the in-memory
\* catalog and in the file, and the rest of the catalog is unchanged.
C7_UpdateCurrentTheme ==
    [][last'.op = "update_current_theme" =>
          IF last'.arg \notin AvailableKeys(file, settings)
          THEN /\ last'.ret = "raised"
               /\ file' = file
               /\ \/ settings' = settings
                  \* nothing was cached and the file's catalog was read
                  \/ /\ ~settings.loaded
                     /\ file.kind = "json"
                     /\ settings' = Loaded(file.cat)
          ELSE last'.ret = "None" =>
               /\ settings'.loaded
               /\ settings'.cat =
                      [ServedCatalog(file, settings)
                          EXCEPT !.current_theme = last'.arg,
                                 !.last_selected_theme = last'.arg]
               /\ file' = FileJson(settings'.cat)]_vars

C7_Witness ==
    /\ last.op = "update_current_theme"
    /\ last.ret = "None"
    /\ last.arg = "dark"
    /\ settings.loaded
    /\ settings.cat.current_theme = "dark"
    /\ settings.cat.last_selected_theme = "dark"
    /\ file = FileJson(settings.cat)

\* C8: across save_settings and update_current_theme, also when the write
\* fails, the settings file holds the complete previous content or a
\* complete catalog, never a partially written one.
C8_SaveIsAtomic ==
    [][last'.op \in {"save_settings", "update_current_theme"}
         => \/ file' = file
            \/ file'.kind = "json"]_vars

-----------------------------------------------------------------------------
(* Properties of QtDetector.                                               *)

\* a descriptor is cached
Cached == cached_framework # "None" /\ cached_modules.id # 0

\* C9: a detect_qt_framework or is_qt_available call probes the bindings
\* exactly when nothing is cached or force_redetect is True; an unforced
\* call with a cached descriptor returns the cached framework name and the
\* very same modules object and leaves the cache alone.
C9_ProbeOnlyWithoutCache ==
    [][det_last'.op \in {"detect_qt_framework", "is_qt_available"} =>
          /\ det_last'.probed <=> (~Cached \/ det_last'.force)
          /\ (Cached /\ ~det_last'.force) =>
                /\ det_last'.exc = "none"
                /\ det_last'.framework = cached_framework
                /\ det_last'.modules = cached_modules
                /\ cached_framework' = cached_framework
                /\ cached_modules' = cached_modules
                /\ next_id' = next_id]_vars

C9_Witness ==
    /\ det_last.op = "detect_qt_framework"
    /\ ~det_last.force
    /\ ~det_last.probed
    /\ det_last.modules.id # 0
    /\ det_last.modules = cached_modules

\* major.minor.patch as one number (components below 100)
VersionNumber(parts) ==
    Pad(parts, 3)[1] * 10000 + Pad(parts, 3)[2] * 100 + Pad(parts, 3)[3]

\* the binding imports and is not below its minimum version
Usable(e, b) ==
    /\ e[b].present
    /\ ~(/\ e[b].version.ok
         /\ VersionNumber(e[b].version.parts) < VersionNumber(MIN_VERSIONS[b].parts))

C11_AvailableIffDetectReturns ==
    [][det_last'.op = "is_qt_available" =>
          LET d == detect_qt_framework(env, cached_framework, cached_modules,
                                       detection_attempted, next_id, FALSE)
          IN /\ det_last'.raised = "none"
             /\ det_last'.ret \in {"True", "False"}
             /\ det_last'.ret = "True" <=> d.exc = "none"
             /\ det_last'.ret = "False" <=> d.exc # "none"]_vars

C11_Witness ==
    /\ det_last.op = "is_qt_available"
    /\ det_last.ret = "False"
    /\ det_last.raised = "none"
    /\ det_last.probed
    /\ env["PySide6"].present

-----------------------------------------------------------------------------
(* Applying the current stylesheet to a sink.                              *)

\* how many stylesheets a sink may receive
MaxPushes == 2

\* the environments in which the controller module is imported
ImportEnvs == { e \in Envs : e["PyQt6"] = NotInstalled /\ e["PyQt5"] = NotInstalled }

\* controller.py, module level: detect_qt_framework() on the untouched
\* module detector; qt_available is TRUE when it returns
ImportController(e) ==
    detect_qt_framework(e, "None", NoModules, FALSE, 1, FALSE)

ApplyResult(ret, pushed, why) == [ret |-> ret, pushed |-> pushed, why |-> why]

\* ThemeController.apply_theme_to_widget(widget) with qt_available = qa and
\* current_stylesheet = q; accepts is FALSE when widget.setStyleSheet raises
apply_theme_to_widget(qa, q, accepts) ==
    IF ~qa THEN ApplyResult(FALSE, FALSE, "qt_unavailable")
    ELSE IF q = <<>> THEN ApplyResult(FALSE, FALSE, "no_stylesheet")
    ELSE IF ~accepts THEN ApplyResult(FALSE, FALSE, "rejected")
    ELSE ApplyResult(TRUE, TRUE, "applied")

\* ThemeController.apply_theme_to_application(app): given says that app is
\* not None, instance that a QApplication exists; without Qt the stub
\* QApplication.instance() returns None
apply_theme_to_application(qa, q, given, instance, accepts) ==
    IF q = <<>> THEN ApplyResult(FALSE, FALSE, "no_stylesheet")
    ELSE IF ~given /\ ~(qa /\ instance) THEN ApplyResult(FALSE, FALSE, "no_app")
    ELSE IF ~accepts THEN ApplyResult(FALSE, FALSE, "rejected")
    ELSE ApplyResult(TRUE, TRUE, "applied")

\* sink.setStyleSheet(q) has been executed
Push(q) == [n |-> sink.n + 1, text |-> q]

SinkKinds == {"accepting", "rejecting"}

\* controller.apply_theme_to_widget(widget)
ApplyThemeToWidget ==
    \E kind \in SinkKinds :
        LET r == apply_theme_to_widget(qt_available, current_stylesheet,
                                       kind = "accepting")
        IN /\ sink.n < MaxPushes
           /\ sink' = IF r.pushed THEN Push(current_stylesheet) ELSE sink
           /\ last' = Call("apply_theme_to_widget", kind, FALSE, Bool(r.ret),
                           r.why)
           /\ UNCHANGED <<file, settings, current_theme_name,
                          current_stylesheet, detVars, qt_available,
                          exportVars, peerVars, pureVars>>

\* controller.apply_theme_to_application(app), app being None or a sink
ApplyThemeToApplication ==
    \E kind \in SinkKinds, given \in BOOLEAN, instance \in BOOLEAN :
        LET r == apply_theme_to_application(qt_available, current_stylesheet,
                                            given, instance, kind = "accepting")
        IN /\ sink.n < MaxPushes
           /\ given => instance
           /\ sink' = IF r.pushed THEN Push(current_stylesheet) ELSE sink
           /\ last' = Call("apply_theme_to_application", kind, given,
                           Bool(r.ret), r.why)
           /\ UNCHANGED <<file, settings, current_theme_name,
                          current_stylesheet, detVars, qt_available,
                          exportVars, peerVars, pureVars>>

\* the controller module has been imported in some environment and a
\* ThemeController constructed on some settings file
InitApply ==
    /\ file \in ExternalFiles
    /\ settings = NewController(file).settings
    /\ current_theme_name = NewController(file).name
    /\ current_stylesheet = NewController(file).qss
    /\ last = Call("__init__", "", FALSE, "None", "")
    /\ env \in ImportEnvs
    /\ cached_framework = ImportController(env).cached_framework
    /\ cached_modules = ImportController(env).cached_modules
    /\ detection_attempted = ImportController(env).detection_attempted
    /\ next_id = ImportController(env).next_id
    /\ det_last = DetCall("detect_qt_framework", FALSE, ImportController(env),
                          "", ImportController(env).exc)
    /\ qt_available = (ImportController(env).exc = "none")
    /\ sink = [n |-> 0, text |-> <<>>]
    /\ ExportIdle /\ PeerIdle /\ PureIdle

NextApply == SetTheme \/ ApplyThemeToWidget \/ ApplyThemeToApplication

SpecApply == InitApply /\ [][NextApply]_vars

\* C12: apply_theme_to_widget and apply_theme_to_application return False
\* whenever qt_available is False or the sink's setStyleSheet raises, and
\* push nothing to the sink when qt_available is False.
C12_ApplyFailsWithoutToolkit ==
    [][last'.op \in {"apply_theme_to_widget", "apply_theme_to_application"} =>
          /\ last'.ret \in {"True", "False"}
          /\ ~qt_available => (last'.ret = "False" /\ sink' = sink)
          /\ last'.arg = "rejecting" => last'.ret = "False"]_vars

-----------------------------------------------------------------------------
(* ThemeController.export_qss.                                             *)

\* The outcome of writing output_path, decided by the file system:
\*   "ok"            the write completes;
\*   "mkdir_denied"  parent.mkdir raises, nothing is created;
\*   "denied"        open raises after the directories were created;
\*   "partial"       open(path, "w") has truncated the file and write raises.
ExportOutcomes == {"ok", "mkdir_denied", "denied", "partial"}

ExportResult(s, o, ret, exc, why) ==
    [settings |-> s, out |-> o, ret |-> ret, exc |-> exc, why |-> why]

\* what the write leaves at output_path
Written(o, text, w) ==
    IF w = "ok" THEN [dirs |-> TRUE, state |-> "complete", content |-> text]
    ELSE IF w = "partial" THEN [dirs |-> TRUE, state |-> "partial", content |-> <<>>]
    ELSE IF w = "denied" THEN [o EXCEPT !.dirs = TRUE]
    ELSE o

\* as export_qss, but the parent directories are not created: open raises
\* when they do not exist
MutExportWithoutMkdir(f, s, n, o, theme_name, w) ==
    LET name == IF theme_name = "None" THEN n ELSE theme_name
        c == get_theme_config(f, s, name)
        g == generate_qss(c.doc)
    IN IF c.exc # "none"
       THEN ExportResult(c.settings, o, FALSE, "none", "load_raised")
       ELSE IF ~(c.found /\ Truthy(c.doc))
       THEN ExportResult(c.settings, o, FALSE, "none", "not_found")
       ELSE IF g.exc # "none"
       THEN ExportResult(c.settings, o, FALSE, "none", "generate_raised")
       ELSE IF ~o.dirs
       THEN ExportResult(c.settings, o, FALSE, "none", "no_directory")
       ELSE ExportResult(c.settings, Written(o, g.qss, w), w = "ok", "none",
                         IF w = "ok" THEN "exported" ELSE "write_raised")

\* as export_qss, but only the look-up and the generation are inside the
\* try block: an OSError of the write reaches the caller
MutExportPropagates(f, s, n, o, theme_name, w) ==
    LET name == IF theme_name = "None" THEN n ELSE theme_name
        c == get_theme_config(f, s, name)
        g == generate_qss(c.doc)
    IN IF c.exc # "none"
       THEN ExportResult(c.settings, o, FALSE, "none", "load_raised")
       ELSE IF ~(c.found /\ Truthy(c.doc))
       THEN ExportResult(c.settings, o, FALSE, "none", "not_found")
       ELSE IF g.exc # "none"
       THEN ExportResult(c.settings, o, FALSE, "none", "generate_raised")
       ELSE ExportResult(c.settings, Written(o, g.qss, w), w = "ok",
                         IF w = "ok" THEN "none" ELSE "OSError",
                         IF w = "ok" THEN "exported" ELSE "write_raised")

\* ThemeController.export_qss(output_path, theme_name): n is
\* current_theme_name, o what is at output_path, theme_name = "None" the
\* default argument, w the outcome of the write
export_qss(f, s, n, o, theme_name, w) ==
    LET name == IF theme_name = "None" THEN n ELSE theme_name
        c == get_theme_config(f, s, name)
        g == generate_qss(c.doc)
    IN IF c.exc # "none"
       THEN ExportResult(c.settings, o, FALSE, "none", "load_raised")
       ELSE IF ~(c.found /\ Truthy(c.doc))
       THEN ExportResult(c.settings, o, FALSE, "none", "not_found")
       ELSE IF g.exc # "none"
       THEN ExportResult(c.settings, o, FALSE, "none", "generate_raised")
       ELSE ExportResult(c.settings, Written(o, g.qss, w), w = "ok", "none",
                         IF w = "ok" THEN "exported" ELSE "write_raised")

\* what export_qss gives its caller: the exception it raises, or else the
\* value it returns
Observed(r) == IF r.exc # "none" THEN r.exc ELSE Bool(r.ret)

\* controller.export_qss(output_path, theme_name)
ExportQss ==
    \E theme_name \in ArgNames \cup {"None"}, w \in ExportOutcomes :
        LET r == export_qss(file, settings, current_theme_name, out,
                            theme_name, w)
        IN /\ (r.why \notin {"exported", "write_raised"} => w = "ok")
           /\ settings' = r.settings
           /\ out' = r.out
           /\ last' = Call("export_qss", theme_name, FALSE, Observed(r), r.why)
           /\ UNCHANGED <<file, current_theme_name, current_stylesheet,
                          detVars, applyVars, peerVars, pureVars>>

\* another program removes output_path and its directories
RemoveOutput ==
    /\ out # NoOutput
    /\ out' = NoOutput
    /\ last' = Call("remove_output", "", FALSE, "", "")
    /\ UNCHANGED <<file, settings, current_theme_name, current_stylesheet,
                   detVars, applyVars, peerVars, pureVars>>

\* a ThemeController has been constructed on some settings file; nothing,
\* or only the directory, exists at the output path
InitExport ==
    /\ file \in ExternalFiles
    /\ settings = NewController(file).settings
    /\ current_theme_name = NewController(file).name
    /\ current_stylesheet = NewController(file).qss
    /\ last = Call("__init__", "", FALSE, "None", "")
    /\ DetectorIdle
    /\ ApplyIdle /\ PeerIdle /\ PureIdle
    /\ out \in {NoOutput, [NoOutput EXCEPT !.dirs = TRUE]}

NextExport == ExportQss \/ RemoveOutput \/ SetTheme

SpecExport == InitExport /\ [][NextExport]_vars

\* the theme an export_qss call names, and its document in the catalog
ExportedName == IF last'.arg = "None" THEN current_theme_name ELSE last'.arg

ExportedDoc == ServedCatalog(file, settings).available_themes[ExportedName]

\* the export was asked for a theme of the catalog, in a directory hierarchy
\* that does not exist, and the file system did not refuse the write
ExportIntoNewDirs ==
    /\ last'.op = "export_qss"
    /\ ~out.dirs
    /\ last'.why # "write_raised"
    /\ ExportedName \in AvailableKeys(file, settings)

\* the directories exist, True was returned, and the file holds exactly
\* generate_qss() of the theme's document
ExportedExactly ==
    /\ last'.ret = "True"
    /\ out'.dirs
    /\ out'.state = "complete"
    /\ out'.content = generate_qss(ExportedDoc).qss

C14_WriteFailureDistinct ==
    [][(/\ last.op = "export_qss"
        /\ last'.op = "export_qss"
        /\ last.why = "not_found"
        /\ last'.why = "write_raised") => last'.ret # last.ret]_vars

\* C14 (amended): export_qss never raises; on a write failure and on
\* theme-not-found alike it returns False.
C14_FailuresReturnFalse ==
    [][(last'.op = "export_qss" /\ last'.why \in {"not_found", "write_raised"})
          => last'.ret = "False"]_vars

C14_Witness ==
    /\ last.op = "export_qss"
    /\ last.why = "write_raised"
    /\ last.ret = "False"
    /\ out.state = "partial"

-----------------------------------------------------------------------------
(* ThemeLoader.load_settings and the shape of the settings document.       *)

\* the settings file parses, but the parsed value lacks a top-level key
\* (JSON null has none at all)
LacksTopLevelKey(f) ==
    \/ f.kind = "null"
    \/ /\ f.kind = "json"
       /\ Missing \in {f.cat.current_theme, f.cat.last_selected_theme}

\* C15: load_settings fails with a distinct error when the file is absent,
\* when its content is unparsable and when the parsed content lacks a
\* required top-level key, and replaces the in-memory catalog only when it
\* does not fail.
C15_LoadFailsDistinctly ==
    [][last'.op = "load_settings" =>
          /\ file.kind = "absent" => last'.why = "FileNotFoundError"
          /\ file.kind \in {"malformed", "partial"} => last'.why = "ValueError"
          /\ LacksTopLevelKey(file) =>
                 last'.why \notin {"none", "FileNotFoundError", "ValueError"}
          /\ last'.why # "none" => settings' = settings
          /\ last'.why = "none" => settings' = Loaded(file.cat)]_vars

-----------------------------------------------------------------------------
(* Switching between themes.                                               *)

\* C16: current_stylesheet depends only on the current theme document: every
\* set_theme(A) that returns True leaves the catalog's themes as they were
\* and current_stylesheet equal to generate_qss() of A's document, whatever
\* was current before; so set_theme(A); set_theme(B); set_theme(A) ends with
\* the stylesheet of the first set_theme(A).
C16_StylesheetOfDocumentOnly ==
    [][(last'.op = "set_theme" /\ last'.ret = "True") =>
          /\ ServedCatalog(file', settings').available_themes
               = ServedCatalog(file, settings).available_themes
          /\ current_theme_name' = last'.arg
          /\ current_stylesheet'
               = generate_qss(ServedCatalog(file, settings)
                                .available_themes[last'.arg]).qss]_vars

\* set_theme("light") succeeded on a controller whose catalog names "dark"
\* as current
C16_Witness ==
    /\ last.op = "set_theme"
    /\ last.arg = "light"
    /\ last.ret = "True"
    /\ ~last.save
    /\ settings.loaded
    /\ settings.cat.current_theme = "dark"
    /\ current_stylesheet = generate_qss(DocLight).qss
    /\ current_stylesheet # generate_qss(DocDark).qss

-----------------------------------------------------------------------------
(* StylesheetGenerator in both modes.                                      *)

\* the components whose value the advanced generators call .get on
AdvancedComponents ==
    <<"button", "input", "panel", "menu", "progress", "scrollbar", "list",
      "tab", "toolbar", "status", "text">>

bg_color(doc) == Get(doc.flat, "backgroundColor", "#ffffff")

text_color(doc) == Get(doc.flat, "textColor", "#000000")

\* button_config.get("normal", theme_config.get("primaryColor", "#4a90e2"))
normal_color(doc) ==
    Get(Tree(doc, "button").tok, "normal",
        Get(doc.flat, "primaryColor", "#4a90e2"))

_generate_enhanced_button_styles(doc) ==
    LET t == Tree(doc, "button").tok
    IN <<"enhanced_button", normal_color(doc), "#ffffff",
         Get(t, "border", "#2c5aa0"),
         Get(t, "hover", "#5ba0f2"), "#ffffff",
         Get(t, "pressed", "#357abd"), "#ffffff",
         Get(t, "disabled", "#a0a0a0"), "#ffffff">>

_generate_enhanced_input_styles(doc) ==
    LET t == Tree(doc, "input").tok
    IN <<"enhanced_input", Get(t, "background", bg_color(doc)),
         Get(t, "text", text_color(doc)), Get(t, "border", "#cccccc"),
         Get(t, "focus", "#0078d4"), Get(t, "placeholder", "#888888"),
         Get(t, "error", "#e53e3e"), Get(t, "success", "#38a169"),
         text_color(doc)>>

_generate_enhanced_panel_styles(doc) ==
    LET t == Tree(doc, "panel").tok
        bg == Get(t, "background", bg_color(doc))
    IN <<"enhanced_panel", bg, Get(t, "border", "#ddd"), text_color(doc),
         Get(t, "header.background", "#e2e8f0"),
         Get(t, "header.text", "#2d3748"),
         Get(t, "header.border", "#cbd5e0"),
         Get(t, "zebra.alternate", bg)>>

\* as _generate_enhanced_menu_styles, but the background is taken from the
\* panel tokens
MutMenuReadsPanel(doc) ==
    LET t == Tree(doc, "menu").tok
    IN <<"enhanced_menu",
         Get(Tree(doc, "panel").tok, "background", bg_color(doc)),
         Get(t, "text", text_color(doc)), Get(t, "border", "#cccccc"),
         Get(t, "hover", "#e2e8f0"), Get(t, "separator", "#e2e8f0")>>

_generate_enhanced_menu_styles(doc) ==
    LET t == Tree(doc, "menu").tok
    IN <<"enhanced_menu", Get(t, "background", bg_color(doc)),
         Get(t, "text", text_color(doc)), Get(t, "border", "#cccccc"),
         Get(t, "hover", "#e2e8f0"), Get(t, "separator", "#e2e8f0")>>

_generate_enhanced_progress_styles(doc) ==
    LET t == Tree(doc, "progress").tok
    IN <<"enhanced_progress", Get(t, "background", "#e2e8f0"),
         Get(t, "text", text_color(doc)), Get(t, "border", "#cbd5e0"),
         Get(t, "bar", "#4a90e2")>>

_generate_enhanced_scrollbar_styles(doc) ==
    LET t == Tree(doc, "scrollbar").tok
    IN <<"enhanced_scrollbar", Get(t, "background", "#f7fafc"),
         Get(t, "handle", "#cbd5e0"), Get(t, "handle_hover", "#a0aec0")>>

_generate_enhanced_list_styles(doc) ==
    LET t == Tree(doc, "list").tok
    IN <<"enhanced_list", Get(t, "background", bg_color(doc)),
         Get(t, "text", text_color(doc)), Get(t, "border", "#e2e8f0"),
         Get(t, "selection", "#4a90e2"), Get(t, "selection_text", "#ffffff")>>

_generate_enhanced_tab_styles(doc) ==
    LET t == Tree(doc, "tab").tok
    IN <<"enhanced_tab", Get(t, "background", bg_color(doc)),
         Get(t, "border", "#cccccc"), Get(t, "text", text_color(doc)),
         Get(t, "selected", "#4a90e2"), Get(t, "selected_text", "#ffffff")>>

_generate_checkbox_radio_styles(doc) ==
    <<"checkbox_radio", text_color(doc), bg_color(doc), normal_color(doc),
      "CHECKMARK_SVG">>

\* as _generate_advanced_qss, but the toolbar fragment precedes the tab
\* fragment
MutAdvancedToolbarFirst(doc) ==
    <<_generate_base_styles(doc), _generate_enhanced_button_styles(doc),
      _generate_enhanced_input_styles(doc),
      _generate_enhanced_panel_styles(doc),
      _generate_enhanced_menu_styles(doc),
      _generate_enhanced_progress_styles(doc),
      _generate_enhanced_scrollbar_styles(doc),
      _generate_enhanced_list_styles(doc),
      _generate_toolbar_styles(doc), _generate_enhanced_tab_styles(doc),
      _generate_status_styles(doc),
      _generate_text_styles(doc), _generate_checkbox_radio_styles(doc)>>

_generate_advanced_qss(doc) ==
    <<_generate_base_styles(doc), _generate_enhanced_button_styles(doc),
      _generate_enhanced_input_styles(doc),
      _generate_enhanced_panel_styles(doc),
      _generate_enhanced_menu_styles(doc),
      _generate_enhanced_progress_styles(doc),
      _generate_enhanced_scrollbar_styles(doc),
      _generate_enhanced_list_styles(doc),
      _generate_enhanced_tab_styles(doc), _generate_toolbar_styles(doc),
      _generate_status_styles(doc),
      _generate_text_styles(doc), _generate_checkbox_radio_styles(doc)>>

\* StylesheetGenerator(theme_config, advanced_mode).generate_qss()
StylesheetGenerator(doc, advanced_mode) ==
    IF ~advanced_mode THEN generate_qss(doc)
    ELSE IF \E i \in DOMAIN AdvancedComponents :
                ~Tree(doc, AdvancedComponents[i]).dict
    THEN [exc |-> "AttributeError", qss |-> <<>>]
    ELSE [exc |-> "none", qss |-> _generate_advanced_qss(doc)]

\* the StyleDocument name of the fragment a template produces
FragmentName ==
    [base |-> "base", button |-> "button", input |-> "input",
     panel |-> "panel", toolbar |-> "toolbar", status |-> "status",
     text |-> "text", enhanced_button |-> "button",
     enhanced_input |-> "input", enhanced_panel |-> "panel",
     enhanced_menu |-> "menu", enhanced_progress |-> "progress",
     enhanced_scrollbar |-> "scrollbar", enhanced_list |-> "list",
     enhanced_tab |-> "tab", checkbox_radio |-> "checkbox_radio"]

\* the names of the fragments of a stylesheet, in their order
FragmentNames(qss) == [i \in DOMAIN qss |-> FragmentName[qss[i][1]]]

\* Theme documents given to a generator: with or without primaryColor, and
\* with any of four components absent, a dict of tokens, or a string.
StyleFlats ==
    { [name |-> "light", display_name |-> "Light Theme",
       backgroundColor |-> "#ffffff", textColor |-> "#000000"],
      [name |-> "dark", display_name |-> "Dark Theme",
       backgroundColor |-> "#2d3748", textColor |-> "#ffffff",
       primaryColor |-> "#0078d4"] }

StyleComponents == {"button", "panel", "menu", "tab"}

StyleTrees ==
    { [dict |-> TRUE, tok |-> [background |-> "#4a5568", text |-> "#ffffff"]],
      [dict |-> TRUE, tok |-> [normal |-> "#123456", border |-> "#654321",
                                hover |-> "#0078d4"]],
      ScalarTree }

StyleDocs ==
    { [flat |-> fl, comp |-> cm] :
        fl \in StyleFlats,
        cm \in UNION { [D -> StyleTrees] : D \in SUBSET StyleComponents } }

\* generator = StylesheetGenerator(theme_config, advanced_mode)
NewGenerator ==
    /\ \E doc \in StyleDocs, advanced_mode \in BOOLEAN :
           call' = [op |-> "StylesheetGenerator", doc |-> doc,
                    advanced_mode |-> advanced_mode, exc |-> "none",
                    qss |-> <<>>]
    /\ call'.doc # call.doc \/ call'.advanced_mode # call.advanced_mode
    /\ UNCHANGED <<themeVars, detVars, applyVars, exportVars, peerVars>>

\* generator.generate_qss()
GenerateQss ==
    LET r == StylesheetGenerator(call.doc, call.advanced_mode)
    IN /\ call' = [call EXCEPT !.op = "generate_qss", !.exc = r.exc,
                                !.qss = r.qss]
       /\ UNCHANGED <<themeVars, detVars, applyVars, exportVars, peerVars>>

InitStyle ==
    /\ ThemeIdle /\ DetectorIdle /\ ApplyIdle /\ ExportIdle /\ PeerIdle
    /\ call \in { [op |-> "StylesheetGenerator", doc |-> doc,
                   advanced_mode |-> advanced_mode, exc |-> "none",
                   qss |-> <<>>] :
                  doc \in StyleDocs, advanced_mode \in BOOLEAN }

NextStyle == NewGenerator \/ GenerateQss

SpecStyle == InitStyle /\ [][NextStyle]_vars

StyleOrder ==
    <<"base", "button", "input", "panel", "menu", "progress", "scrollbar",
      "list", "tab", "toolbar", "status", "text">>

BasicOrder ==
    <<"base", "button", "input", "panel", "toolbar", "status", "text">>

Generated == call.op = "generate_qss" /\ call.exc = "none"

\* C17 (as stated): generate_qss emits the fragments base, button, input,
\* panel, menu, progress, scrollbar, list, tab, toolbar, status, text in that
\* order, basic mode the subsequence base, button, input, panel, toolbar,
\* status, text, and no other fragment in either mode.
C17_FragmentOrder ==
    Generated =>
        FragmentNames(call.qss)
            = IF call.advanced_mode THEN StyleOrder ELSE BasicOrder

\* C17 (amended): the same, except that advanced mode emits one more
\* fragment after text: the checkbox and radio button fragment.
C17_FragmentOrderWithCheckbox ==
    Generated =>
        FragmentNames(call.qss)
            = IF call.advanced_mode THEN StyleOrder \o <<"checkbox_radio">>
              ELSE BasicOrder

C17_Witness ==
    /\ Generated
    /\ call.advanced_mode
    /\ "menu" \in DOMAIN call.doc.comp
    /\ Len(call.qss) = 13

-----------------------------------------------------------------------------
(* Two ThemeController instances on one settings file.  The first is held  *)
(* in settings, current_theme_name and current_stylesheet, the second in   *)
(* peer; each has its own ThemeLoader.                                     *)

Controller(s, n, q) == [settings |-> s, name |-> n, qss |-> q]

\* the theme of the last set_theme(save_settings=True) that returned True
SavedAfter(r, theme_name, save) ==
    IF save /\ r.ret THEN theme_name ELSE saved

\* first.set_theme(theme_name, save_settings)
FirstSetTheme ==
    \E theme_name \in ArgNames, save \in BOOLEAN, w \in WriteOutcomes :
        LET r == set_theme(file, settings, current_theme_name,
                           current_stylesheet, theme_name, save, w)
        IN /\ (~save => w = "ok")
           /\ file' = r.file
           /\ settings' = r.settings
           /\ current_theme_name' = r.name
           /\ current_stylesheet' = r.qss
           /\ saved' = SavedAfter(r, theme_name, save)
           /\ last' = Call("set_theme", theme_name, save, Bool(r.ret), r.why)
           /\ UNCHANGED <<peer, detVars, applyVars, exportVars, pureVars>>

\* second.set_theme(theme_name, save_settings)
SecondSetTheme ==
    \E theme_name \in ArgNames, save \in BOOLEAN, w \in WriteOutcomes :
        LET r == set_theme(file, peer.settings, peer.name, peer.qss,
                           theme_name, save, w)
        IN /\ (~save => w = "ok")
           /\ file' = r.file
           /\ peer' = Controller(r.settings, r.name, r.qss)
           /\ saved' = SavedAfter(r, theme_name, save)
           /\ last' = Call("peer.set_theme", theme_name, save, Bool(r.ret),
                           r.why)
           /\ UNCHANGED <<settings, current_theme_name, current_stylesheet,
                          detVars, applyVars, exportVars, pureVars>>

\* first.reload_themes()
FirstReloadThemes ==
    LET r == reload_themes(file, settings, current_theme_name,
                           current_stylesheet)
    IN /\ settings' = r.settings
       /\ current_theme_name' = r.name
       /\ current_stylesheet' = r.qss
       /\ last' = Call("reload_themes", "", FALSE, Bool(r.ret), "")
       /\ UNCHANGED <<file, peer, saved, detVars, applyVars, exportVars,
                      pureVars>>

\* second.reload_themes()
SecondReloadThemes ==
    LET r == reload_themes(file, peer.settings, peer.name, peer.qss)
    IN /\ peer' = Controller(r.settings, r.name, r.qss)
       /\ last' = Call("peer.reload_themes", "", FALSE, Bool(r.ret), "")
       /\ UNCHANGED <<file, settings, current_theme_name, current_stylesheet,
                      saved, detVars, applyVars, exportVars, pureVars>>

\* the settings files the two controllers are constructed on
PeerFiles ==
    {FileAbsent} \cup
    { FileJson(cat) : cat \in { c \in FileCatalogs :
                                  /\ c.current_theme = "light"
                                  /\ c.last_selected_theme = "light" } }

\* two controllers have been constructed on the same settings file
InitPeers ==
    /\ file \in PeerFiles
    /\ settings = NewController(file).settings
    /\ current_theme_name = NewController(file).name
    /\ current_stylesheet = NewController(file).qss
    /\ peer = NewController(file)
    /\ saved = ""
    /\ last = Call("__init__", "", FALSE, "None", "")
    /\ DetectorIdle /\ ApplyIdle /\ ExportIdle /\ PureIdle

NextPeers ==
    \/ FirstSetTheme
    \/ SecondSetTheme
    \/ FirstReloadThemes
    \/ SecondReloadThemes

SpecPeers == InitPeers /\ [][NextPeers]_vars

\* a call on the second controller leaves the first one's theme alone, and
\* the other way round
NoAliasing ==
    /\ last'.op \in {"peer.set_theme", "peer.reload_themes"} =>
           UNCHANGED <<current_theme_name, current_stylesheet>>
    /\ last'.op \in {"set_theme", "reload_themes"} =>
           (peer'.name = peer.name /\ peer'.qss = peer.qss)

\* the file names the theme of the most recent saving set_theme that
\* returned True
LastWriterWins ==
    saved' # "" => (file'.kind = "json" /\ file'.cat.current_theme = saved')

\* a reload_themes on either controller adopts that theme
ReloadAdopts ==
    /\ (last'.op = "reload_themes" /\ saved # "") =>
           (last'.ret = "True" /\ current_theme_name' = saved)
    /\ (last'.op = "peer.reload_themes" /\ saved # "") =>
           (last'.ret = "True" /\ peer'.name = saved)

\* C18: for two controllers on one settings file and any interleaving of
\* their set_theme calls, each controller's current theme changes only
\* through its own calls, the file's current_theme is the theme of the most
\* recent successful set_theme(save_settings=True) by either, and a later
\* reload_themes on either controller adopts it.
C18_LastWriterWins ==
    [][NoAliasing /\ LastWriterWins /\ ReloadAdopts]_vars

-----------------------------------------------------------------------------
(* The command line: themectl.main and ThemeCLI.  One call of main is one  *)
(* process: it builds its own ThemeController on the settings file.        *)

\* what main leaves behind: the settings file, the process's controller,
\* the export target, the exit code of the process and how it came about
CliResult(f, c, o, exit, outcome) ==
    [file |-> f, ctl |-> c, out |-> o, exit |-> exit, outcome |-> outcome]

\* theme_name.strip() on the theme arguments considered
Strip(theme) ==
    IF theme = "  " THEN "" ELSE IF theme = " dark " THEN "dark" ELSE theme

\* the end of list_themes and show_current, a being what
\* controller.get_available_themes() gave: any exception ends in sys.exit(1)
CliShown(f, c, o, a) ==
    IF a.exc # "none"
    THEN CliResult(f, Controller(a.settings, c.name, c.qss), o, 1,
                   "handler_raised")
    ELSE CliResult(f, Controller(a.settings, c.name, c.qss), o, 0,
                   "completed")

\* ThemeCLI.list_themes and ThemeCLI.show_current: both read the catalog of
\* the controller and print
cli_show(f, c, o) == CliShown(f, c, o, get_available_themes(f, c.settings))

\* as CliSetDone, but without the sys.exit(1) after a set_theme that
\* returned False
MutCliSetIgnoresFailure(o, r) ==
    CliResult(r.file, Controller(r.settings, r.name, r.qss), o, 0,
              IF r.ret THEN "completed" ELSE "failed")

\* the end of ThemeCLI.set_theme, r being what controller.set_theme did:
\* sys.exit(1) unless it returned True
CliSetDone(o, r) ==
    CliResult(r.file, Controller(r.settings, r.name, r.qss), o,
              IF r.ret THEN 0 ELSE 1, IF r.ret THEN "completed" ELSE "failed")

\* ThemeCLI.set_theme after theme_name.strip(), a being what
\* controller.get_available_themes() gave
CliSetTheme(f, c, o, t, a, w) ==
    IF t = "" THEN CliResult(f, c, o, 1, "empty_name")
    ELSE IF a.exc # "none"
    THEN CliResult(f, Controller(a.settings, c.name, c.qss), o, 1,
                   "handler_raised")
    ELSE IF DOMAIN a.val = {}
    THEN CliResult(f, Controller(a.settings, c.name, c.qss), o, 1,
                   "no_themes")
    ELSE IF t \notin DOMAIN a.val
    THEN CliResult(f, Controller(a.settings, c.name, c.qss), o, 1,
                   "unknown_theme")
    ELSE IF t = c.name
    THEN CliResult(f, Controller(a.settings, c.name, c.qss), o, 0,
                   "completed")
    ELSE CliSetDone(o, set_theme(f, a.settings, c.name, c.qss, t, TRUE, w))

\* ThemeCLI.set_theme(theme_name)
cli_set_theme(f, c, o, theme, w) ==
    CliSetTheme(f, c, o, Strip(theme), get_available_themes(f, c.settings), w)

\* the end of ThemeCLI.export_qss, r being what controller.export_qss did
CliExportDone(f, c, r) ==
    CliResult(f, Controller(r.settings, c.name, c.qss), r.out,
              IF r.ret THEN 0 ELSE 1, IF r.ret THEN "completed" ELSE "failed")

\* ThemeCLI.export_qss after the strips; output is "" or a path, w the
\* outcome of creating the directory and writing the file
CliExportQss(f, c, o, t, output, a, w) ==
    IF t = "" THEN CliResult(f, c, o, 1, "empty_name")
    ELSE IF output = "" THEN CliResult(f, c, o, 1, "empty_output")
    ELSE IF a.exc # "none"
    THEN CliResult(f, Controller(a.settings, c.name, c.qss), o, 1,
                   "handler_raised")
    ELSE IF DOMAIN a.val = {}
    THEN CliResult(f, Controller(a.settings, c.name, c.qss), o, 1,
                   "no_themes")
    ELSE IF t \notin DOMAIN a.val
    THEN CliResult(f, Controller(a.settings, c.name, c.qss), o, 1,
                   "unknown_theme")
    ELSE IF ~o.dirs /\ w = "mkdir_denied"
    THEN CliResult(f, Controller(a.settings, c.name, c.qss), o, 1, "failed")
    ELSE CliExportDone(f, c, export_qss(f, a.settings, c.name,
                                        [o EXCEPT !.dirs = TRUE], t, w))

\* ThemeCLI.export_qss(theme_name, output_path)
cli_export_qss(f, c, o, theme, output, w) ==
    CliExportQss(f, c, o, Strip(theme), output,
                 get_available_themes(f, c.settings), w)

\* the commands of the parser, no command at all ("none"), and a word that
\* is not a command
Commands == {"list", "set", "export", "current", "version"}

CliCommands == Commands \cup {"none", "bogus"}

\* --config: not given, a path (to the settings file), or a directory
ConfigArgs == {"None", "path", "directory"}

NoController == Controller(NotLoaded, "", <<>>)

\* the second half of main: the command is executed on cli.controller
Execute(f, c, o, command, theme, output, interrupt, w) ==
    IF interrupt THEN CliResult(f, c, o, 1, "interrupted")
    ELSE IF command \in {"list", "current"} THEN cli_show(f, c, o)
    ELSE IF command = "set" THEN cli_set_theme(f, c, o, theme, w)
    ELSE cli_export_qss(f, c, o, theme, output, w)

\* main() with sys.argv parsed into command, theme, output, verbose and
\* config; interrupt says that KeyboardInterrupt is raised when the command
\* handler starts.  The exit code is that of the process: the value main
\* returns (None counts as 0), the code of a SystemExit, or 1 for an
\* exception nobody catches.
main(f, o, command, theme, output, verbose, config, interrupt, w) ==
    IF command = "bogus"
    THEN CliResult(f, NoController, o, 2, "usage")
    \* `logging` is not imported: logging.getLogger() raises NameError
    ELSE IF verbose
    THEN CliResult(f, NoController, o, 1, "uncaught")
    ELSE IF command = "none"
    THEN CliResult(f, NoController, o, 0, "help")
    ELSE IF command = "version"
    THEN CliResult(f, NoController, o, 0, "completed")
    ELSE IF \/ config = "directory"
            \/ config = "path" /\ f.kind = "absent"
    THEN CliResult(f, NoController, o, 1, "init_failed")
    ELSE Execute(f, NewController(f), o, command, theme, output, interrupt, w)

CliThemes == {"light", " dark ", "nonexistent", "  "}

CliOutputs == {"", "out/theme.qss"}

Invocation(command, theme, output, verbose, config, interrupt, r) ==
    [op |-> "main", command |-> command, theme |-> theme, output |-> output,
     verbose |-> verbose, config |-> config, interrupt |-> interrupt,
     exit |-> r.exit, outcome |-> r.outcome]

\* the arguments that go with a command
ThemesOf(command) ==
    IF command \in {"set", "export"} THEN CliThemes ELSE {""}

OutputsOf(command) == IF command = "export" THEN CliOutputs ELSE {""}

\* the file system outcomes a command can meet
OutcomesOf(command) ==
    IF command = "set" THEN WriteOutcomes
    ELSE IF command = "export"
    THEN { w \in ExportOutcomes : out.dirs => w # "mkdir_denied" }
    ELSE {"ok"}

\* --verbose, --config and the interrupt, one of them at a time
CliFlags ==
    { fl \in [verbose : BOOLEAN, config : ConfigArgs, interrupt : BOOLEAN] :
        /\ fl.verbose => (fl.config = "None" /\ ~fl.interrupt)
        /\ fl.interrupt => fl.config = "None" }

\* what a call of main leaves behind
Ran(command, theme, output, fl, w, r) ==
    /\ r.outcome \notin {"completed", "failed"} => w = "ok"
    /\ file' = r.file
    /\ settings' = r.ctl.settings
    /\ current_theme_name' = r.ctl.name
    /\ current_stylesheet' = r.ctl.qss
    /\ out' = r.out
    /\ call' = Invocation(command, theme, output, fl.verbose, fl.config,
                          fl.interrupt, r)
    /\ last' = Call("main", command, FALSE, "", r.outcome)
    /\ UNCHANGED <<detVars, applyVars, peerVars>>

\* qt-theme-manager [--verbose] [--config PATH] COMMAND [theme] [output]
Main ==
    \E command \in CliCommands, fl \in CliFlags :
      \E theme \in ThemesOf(command), output \in OutputsOf(command),
         w \in OutcomesOf(command) :
        Ran(command, theme, output, fl, w,
            main(file, out, command, theme, output, fl.verbose, fl.config,
                 fl.interrupt, w))

\* the settings files the command line is run on
CliFiles ==
    {FileAbsent, FileMalformed} \cup
    { FileJson([current_theme |-> "light", last_selected_theme |-> "light",
                available_themes |-> m]) :
        m \in { t \in ThemeMaps : DOMAIN t = ThemeNames } }

\* no process has run yet
InitCli ==
    /\ file \in CliFiles
    /\ settings = NotLoaded
    /\ current_theme_name = ""
    /\ current_stylesheet = <<>>
    /\ last = NoCall
    /\ DetectorIdle /\ ApplyIdle /\ ExportIdle /\ PeerIdle /\ PureIdle

NextCli == Main \/ RemoveOutput

SpecCli == InitCli /\ [][NextCli]_vars

\* the themes a new process finds in the settings file
CliThemeNames == AvailableKeys(file, NotLoaded)

\* the handled errors: ThemeCLI could not be built, the theme is not known,
\* set or export failed, KeyboardInterrupt, an exception in the handler
HandledErrors ==
    {"init_failed", "unknown_theme", "failed", "interrupted",
     "handler_raised", "empty_name", "empty_output", "no_themes"}

\* C19: main ends with exit code 0 when the selected command completes and
\* with 1 for every handled error; an unknown theme, a set that did not make
\* the theme current, an export that did not write the file, a ThemeCLI
\* that could not be built and an interrupted command never end with 0.
C19_ExitCodes ==
    [][last'.op = "main" =>
          /\ call'.outcome = "completed" => call'.exit = 0
          /\ call'.outcome \in HandledErrors => call'.exit = 1
          /\ call'.command \in Commands =>
                 /\ call'.exit \in {0, 1}
                 /\ call'.outcome \in HandledErrors \cup {"completed", "uncaught"}
          /\ (/\ call'.command \in {"set", "export"}
              /\ Strip(call'.theme) \notin CliThemeNames) => call'.exit = 1
          /\ (call'.command = "set" /\ call'.exit = 0) =>
                 current_theme_name' = Strip(call'.theme)
          /\ (call'.command = "export" /\ call'.exit = 0) =>
                 /\ out'.state = "complete"
                 /\ out'.content
                      = generate_qss(file.cat.available_themes
                                         [Strip(call'.theme)]).qss
          /\ (/\ call'.command \in Commands \ {"version"}
              /\ \/ call'.config = "directory"
                 \/ call'.config = "path" /\ file.kind = "absent"
                 \/ call'.interrupt) => call'.exit = 1]_vars

\* `set dark` made dark the current theme and ended with 0
C19_Witness ==
    /\ last.op = "main"
    /\ call.command = "set"
    /\ call.theme = " dark "
    /\ call.exit = 0
    /\ current_theme_name = "dark"
    /\ file.kind = "json"
    /\ file.cat.current_theme = "dark"

-----------------------------------------------------------------------------
(* ZebraPatternGenerator on grey colours.  A colour #gggggg is its level g *)
(* in 0..255; luminance is counted in millionths and a contrast ratio in   *)
(* thousandths, since the floating-point values have no counterpart here.  *)

Abs(x) == IF x < 0 THEN 0 - x ELSE x

Min(a, b) == IF a < b THEN a ELSE b

Clamp(x, lo, hi) == Max(lo, Min(hi, x))

\* get_luminance("#gggggg") for g = 0..255 (entry g + 1), in millionths:
\* the gamma-corrected level, the three coefficients adding up to 1
Luminance ==
    <<
      0, 304, 607, 911, 1214, 1518, 1821, 2125,
      2428, 2732, 3035, 3347, 3677, 4025, 4391, 4777,
      5182, 5605, 6049, 6512, 6995, 7499, 8023, 8568,
      9134, 9721, 10330, 10960, 11612, 12286, 12983, 13702,
      14444, 15209, 15996, 16807, 17642, 18500, 19382, 20289,
      21219, 22174, 23153, 24158, 25187, 26241, 27321, 28426,
      29557, 30713, 31896, 33105, 34340, 35601, 36889, 38204,
      39546, 40915, 42311, 43735, 45186, 46665, 48172, 49707,
      51269, 52861, 54480, 56128, 57805, 59511, 61246, 63010,
      64803, 66626, 68478, 70360, 72272, 74214, 76185, 78187,
      80220, 82283, 84376, 86500, 88656, 90842, 93059, 95307,
      97587, 99899, 102242, 104616, 107023, 109462, 111932, 114435,
      116971, 119538, 122139, 124772, 127438, 130136, 132868, 135633,
      138432, 141263, 144128, 147027, 149960, 152926, 155926, 158961,
      162029, 165132, 168269, 171441, 174647, 177888, 181164, 184475,
      187821, 191202, 194618, 198069, 201556, 205079, 208637, 212231,
      215861, 219526, 223228, 226966, 230740, 234551, 238398, 242281,
      246201, 250158, 254152, 258183, 262251, 266356, 270498, 274677,
      278894, 283149, 287441, 291771, 296138, 300544, 304987, 309469,
      313989, 318547, 323143, 327778, 332452, 337164, 341914, 346704,
      351533, 356400, 361307, 366253, 371238, 376262, 381326, 386429,
      391572, 396755, 401978, 407240, 412543, 417885, 423268, 428690,
      434154, 439657, 445201, 450786, 456411, 462077, 467784, 473531,
      479320, 485150, 491021, 496933, 502886, 508881, 514918, 520996,
      527115, 533276, 539479, 545724, 552011, 558340, 564712, 571125,
      577580, 584078, 590619, 597202, 603827, 610496, 617207, 623960,
      630757, 637597, 644480, 651406, 658375, 665387, 672443, 679542,
      686685, 693872, 701102, 708376, 715694, 723055, 730461, 737910,
      745404, 752942, 760525, 768151, 775822, 783538, 791298, 799103,
      806952, 814847, 822786, 830770, 838799, 846873, 854993, 863157,
      871367, 879622, 887923, 896269, 904661, 913099, 921582, 930111,
      938686, 947307, 955973, 964686, 973445, 982251, 991102, 1000000
    >>

get_luminance(g) == Luminance[g + 1]

\* (lighter + 0.05) / (darker + 0.05), in thousandths
get_contrast_ratio(color1, color2) ==
    LET l1 == get_luminance(color1)
        l2 == get_luminance(color2)
    IN (1000 * (Max(l1, l2) + 50000)) \div (Min(l1, l2) + 50000)

\* How the floating-point arithmetic falls where the exact value lies on a
\* boundary: up holds the offsets at which l + adjustment/100, times 255, is
\* rounded up from one half; short says that v * (1 + factor) * 255 comes
\* out just below a whole number it equals exactly.
TieOffsets == {-50, -30, -10, 10, 30, 50}

\* adjust_brightness_hsl on a grey: l = g/255, saturation 0, and
\* int(round(new_l * 255)) with new_l = max(0, min(1, l + percent/100))
adjust_brightness_hsl(g, percent, fp) ==
    LET n == Clamp(100 * g + 255 * percent, 0, 25500)
        q == n \div 100
        r == n % 100
    IN IF r > 50 \/ (r = 50 /\ percent \in fp.up) THEN q + 1 ELSE q

\* adjust_brightness_hsv on a grey, called with factor = percent/100:
\* int(new_v * 255) with new_v = max(0, min(1, v * (1 + factor)))
adjust_brightness_hsv(g, percent, fp) ==
    LET n == Clamp(g * (100 + percent), 0, 25500)
        q == n \div 100
    IN IF n % 100 = 0 /\ fp.short /\ 0 < n /\ n < 25500 THEN q - 1 ELSE q

\* range(-50, 51, 2)
adjustment_range == [i \in 1..51 |-> 2 * i - 52]

\* as Closer, but every candidate replaces the best one
MutCloserAlways(contrast, best_contrast, contrast_target) == TRUE

\* abs(contrast - contrast_target) < abs(best_contrast - contrast_target)
Closer(contrast, best_contrast, contrast_target) ==
    Abs(contrast - contrast_target) < Abs(best_contrast - contrast_target)

\* the method after "auto" has been replaced
Direction(base_color, method) ==
    IF method = "auto"
    THEN IF get_luminance(base_color) > 500000 THEN "darker" ELSE "lighter"
    ELSE method

\* the candidate the loop computes for one adjustment
test_color(base_color, method, adjustment, fp) ==
    IF method \in {"auto", "darker", "lighter", "hsl"}
    THEN adjust_brightness_hsl(base_color, adjustment, fp)
    ELSE adjust_brightness_hsv(base_color, adjustment, fp)

\* the loop of generate_zebra_color from its i-th adjustment on; best is
\* best_color with best_contrast
RECURSIVE ZebraLoop(_, _, _, _, _, _)
ZebraLoop(base_color, contrast_target, method, fp, i, best) ==
    IF i > Len(adjustment_range) THEN best.color
    ELSE LET adjustment == adjustment_range[i]
             t == test_color(base_color, method, adjustment, fp)
             contrast == get_contrast_ratio(base_color, t)
         IN IF \/ method = "darker" /\ adjustment > 0
               \/ method = "lighter" /\ adjustment < 0
            THEN ZebraLoop(base_color, contrast_target, method, fp, i + 1,
                           best)
            ELSE IF Closer(contrast, best.contrast, contrast_target)
            THEN ZebraLoop(base_color, contrast_target, method, fp, i + 1,
                           [color |-> t, contrast |-> contrast])
            ELSE ZebraLoop(base_color, contrast_target, method, fp, i + 1,
                           best)

generate_zebra_color(base_color, contrast_target, method, fp) ==
    ZebraLoop(base_color, contrast_target, Direction(base_color, method), fp,
              1, [color |-> base_color, contrast |-> 1000])

\* the arguments considered: grey levels, targets in thousandths, methods
ZebraBases == {0, 40, 128, 187, 188, 230, 255}

ZebraTargets == {1150, 1200, 1800, 3000}

ZebraMethods == {"auto", "lighter", "darker", "hsl", "hsv"}

FloatOutcomes(method) ==
    IF method = "hsv"
    THEN { [up |-> {}, short |-> sh] : sh \in BOOLEAN }
    ELSE { [up |-> u, short |-> FALSE] : u \in SUBSET TieOffsets }

ZebraArgs ==
    { [op |-> "args", base_color |-> b, contrast_target |-> t,
       method |-> m, fp |-> fp, ret |-> b] :
        b \in ZebraBases, t \in ZebraTargets,
        m \in {"auto", "lighter", "darker", "hsl"},
        fp \in FloatOutcomes("hsl") }
    \cup
    { [op |-> "args", base_color |-> b, contrast_target |-> t,
       method |-> "hsv", fp |-> fp, ret |-> b] :
        b \in ZebraBases, t \in ZebraTargets, fp \in FloatOutcomes("hsv") }

\* ZebraPatternGenerator.generate_zebra_color(base, target, method)
GenerateZebraColor ==
    /\ call.op = "args"
    /\ call' = [call EXCEPT
                  !.op = "generate_zebra_color",
                  !.ret = generate_zebra_color(call.base_color,
                                               call.contrast_target,
                                               call.method, call.fp)]
    /\ UNCHANGED <<themeVars, detVars, applyVars, exportVars, peerVars>>

\* the caller picks the arguments of the next call
NextZebraArgs ==
    /\ call.op = "generate_zebra_color"
    /\ \E m \in ZebraMethods \ {call.method} :
           call' = [call EXCEPT !.op = "args", !.method = m,
                                !.fp = CHOOSE fp \in FloatOutcomes(m) :
                                           fp.up = {} /\ ~fp.short,
                                !.ret = call.base_color]
    /\ UNCHANGED <<themeVars, detVars, applyVars, exportVars, peerVars>>

InitZebra ==
    /\ ThemeIdle /\ DetectorIdle /\ ApplyIdle /\ ExportIdle /\ PeerIdle
    /\ call \in ZebraArgs

NextZebra == GenerateZebraColor \/ NextZebraArgs

SpecZebra == InitZebra /\ [][NextZebra]_vars

\* the offsets -50 to +50 in steps of 2 that the claim lets a direction
\* examine
ExaminedOffsets(direction) ==
    { x \in -50..50 :
        /\ x % 2 = 0
        /\ direction = "darker" => x <= 0
        /\ direction = "lighter" => x >= 0 }

\* how far the contrast of a colour against the base is from the target
Distance(color) ==
    Abs(get_contrast_ratio(call.base_color, color) - call.contrast_target)

\* C20: generate_zebra_color examines the offsets -50 to +50 in steps of 2,
\* only those <= 0 when the direction is darker and only those >= 0 when it
\* is lighter ("auto" is darker iff luminance(base) > 0.5), and returns the
\* base or an examined candidate whose contrast against the base is at least
\* as close to the target as that of every examined candidate and of the
\* base.
C20_ClosestExaminedCandidate ==
    call.op = "generate_zebra_color" =>
        LET direction ==
                IF call.method = "auto"
                THEN IF get_luminance(call.base_color) > 500000
                     THEN "darker" ELSE "lighter"
                ELSE call.method
            Candidates ==
                { test_color(call.base_color, call.method, x, call.fp) :
                    x \in ExaminedOffsets(direction) }
        IN /\ call.ret \in Candidates \cup {call.base_color}
           /\ Distance(call.ret) <= Distance(call.base_color)
           /\ \A c \in Candidates : Distance(call.ret) <= Distance(c)

\* a light grey under "auto": a darker colour was returned
C20_Witness ==
    /\ call.op = "generate_zebra_color"
    /\ call.method = "auto"
    /\ call.base_color = 230
    /\ call.contrast_target = 1200
    /\ call.ret < call.base_color
    /\ Distance(call.ret) < Distance(call.base_color)

-----------------------------------------------------------------------------
(* A forced probe that finds nothing.                                      *)

\* the last call was detect_qt_framework(force_redetect=True) and it raised
\* QtFrameworkNotFoundError
ForcedProbeFailed ==
    /\ det_last.op = "detect_qt_framework"
    /\ det_last.force
    /\ det_last.exc = "QtFrameworkNotFoundError"

\* C21: after detect_qt_framework(force_redetect=True) raised
\* QtFrameworkNotFoundError the detector holds no descriptor:
\* get_cached_framework() is None, and an unforced detect_qt_framework() or
\* is_qt_available() made next does not report a binding.
C21_FailedForcedProbeDropsCache ==
    ForcedProbeFailed =>
        /\ cached_framework = "None"
        /\ detect_qt_framework(env, cached_framework, cached_modules,
                               detection_attempted, next_id, FALSE).exc # "none"
        /\ ~is_qt_available(env, cached_framework, cached_modules,
                            detection_attempted, next_id).ret

-----------------------------------------------------------------------------
(* The loader's cache and the settings file.                               *)

\* a cached catalog names the current and last selected theme that the
\* settings file stores
InSync(f, s) ==
    s.loaded => /\ f.kind = "json"
                /\ f.cat.current_theme = s.cat.current_theme
                /\ f.cat.last_selected_theme = s.cat.last_selected_theme

LoaderOperations ==
    {"load_settings", "loader.reload_themes", "save_settings",
     "update_current_theme"}

\* C22: a ThemeLoader operation that starts with the cache and the settings
\* file in agreement (no other writer has intervened) ends, returned or
\* raised, with a cached catalog whose current_theme and
\* last_selected_theme are those stored in the file; an
\* update_current_theme whose save fails leaves the two in-memory values as
\* they were before the call.
C22_CacheAgreesWithFile ==
    [][(last'.op \in LoaderOperations /\ InSync(file, settings)) =>
          /\ InSync(file', settings')
          /\ (last'.op = "update_current_theme" /\ last'.why = "OSError"
                /\ settings'.loaded) =>
                /\ settings'.cat.current_theme =
                       ServedCatalog(file, settings).current_theme
                /\ settings'.cat.last_selected_theme =
                       ServedCatalog(file, settings).last_selected_theme]_vars

-----------------------------------------------------------------------------
(* The module-level functions apply_theme_to_widget and                    *)
(* apply_theme_to_application.                                             *)

\* `if theme_name: controller.set_theme(theme_name, save_settings=False)` on
\* a controller just constructed on file f; the value returned by
\* set_theme is dropped.  "" stands for None (and for the empty string).
StandaloneController(f, theme_name) ==
    LET c == NewController(f)
    IN IF theme_name = "" THEN c.qss
       ELSE set_theme(f, c.settings, c.name, c.qss, theme_name, FALSE, "ok").qss

\* apply_theme_to_widget(widget, theme_name, config_path), module level
standalone_apply_theme_to_widget(f, qa, theme_name, accepts) ==
    IF ~qa THEN ApplyResult(FALSE, FALSE, "qt_unavailable")
    ELSE apply_theme_to_widget(qa, StandaloneController(f, theme_name), accepts)

\* apply_theme_to_application(app, theme_name, config_path), module level
standalone_apply_theme_to_application(f, qa, name, given, instance, accepts) ==
    apply_theme_to_application(qa, StandaloneController(f, name), given,
                               instance, accepts)

\* theme_name as passed to the module-level functions
StandaloneNames == ArgNames \cup {""}

\* apply_theme_to_widget(widget, theme_name, config_path)
StandaloneApplyThemeToWidget ==
    \E kind \in SinkKinds, theme_name \in StandaloneNames :
        LET r == standalone_apply_theme_to_widget(file, qt_available,
                                                  theme_name, kind = "accepting")
        IN /\ sink.n < MaxPushes
           /\ sink' = IF r.pushed
                      THEN Push(StandaloneController(file, theme_name))
                      ELSE sink
           /\ last' = Call("standalone.apply_theme_to_widget", theme_name,
                           FALSE, Bool(r.ret), r.why)
           /\ UNCHANGED <<file, settings, current_theme_name,
                          current_stylesheet, detVars, qt_available,
                          exportVars, peerVars, pureVars>>

\* apply_theme_to_application(app, theme_name, config_path)
StandaloneApplyThemeToApplication ==
    \E kind \in SinkKinds, theme_name \in StandaloneNames,
       given \in BOOLEAN, instance \in BOOLEAN :
        LET r == standalone_apply_theme_to_application(
                     file, qt_available, theme_name, given, instance,
                     kind = "accepting")
        IN /\ sink.n < MaxPushes
           /\ given => instance
           /\ sink' = IF r.pushed
                      THEN Push(StandaloneController(file, theme_name))
                      ELSE sink
           /\ last' = Call("standalone.apply_theme_to_application", theme_name,
                           given, Bool(r.ret), r.why)
           /\ UNCHANGED <<file, settings, current_theme_name,
                          current_stylesheet, detVars, qt_available,
                          exportVars, peerVars, pureVars>>

\* the sink is replaced by a fresh widget or application
NewSink ==
    /\ sink.n > 0
    /\ sink' = [n |-> 0, text |-> <<>>]
    /\ last' = Call("new_sink", "", FALSE, "", "")
    /\ UNCHANGED <<file, settings, current_theme_name, current_stylesheet,
                   detVars, qt_available, exportVars, peerVars, pureVars>>

\* the controller module has been imported in some environment; the
\* module-level functions are called on some settings file
InitStandalone ==
    /\ file \in PeerFiles
    /\ InitApply

NextStandalone ==
    \/ StandaloneApplyThemeToWidget
    \/ StandaloneApplyThemeToApplication
    \/ NewSink

SpecStandalone == InitStandalone /\ [][NextStandalone]_vars

StandaloneOperations ==
    {"standalone.apply_theme_to_widget", "standalone.apply_theme_to_application"}

\* theme_name is in the catalog of file f and passes validate_theme_config
ValidIn(f, theme_name) ==
    /\ f.kind = "json"
    /\ theme_name \in DOMAIN f.cat.available_themes
    /\ validate_theme_config(f.cat.available_themes[theme_name])

\* C23: the module-level apply_theme_to_widget(widget, theme_name) and
\* apply_theme_to_application(app, theme_name) return True only if the
\* stylesheet pushed to the sink is the one generated from theme_name; when
\* theme_name is not in the catalog or fails validation they return False
\* and push nothing.
C23_StandaloneAppliesNamedTheme ==
    [][(last'.op \in StandaloneOperations /\ last'.arg # "") =>
          /\ last'.ret = "True" =>
                /\ ValidIn(file, last'.arg)
                /\ sink'.n = sink.n + 1
                /\ sink'.text =
                       generate_qss(file.cat.available_themes[last'.arg]).qss
          /\ ~ValidIn(file, last'.arg) =>
                (last'.ret = "False" /\ sink' = sink)]_vars

-----------------------------------------------------------------------------
(* Which tokens a fragment depends on.                                     *)

\* the token sub-trees a component may hold
DictTrees == { t \in StyleTrees : t.dict }

\* the stylesheets q1 and q2 have the same fragments, except possibly the
\* fragments named in names
SameFragmentsExcept(q1, q2, names) ==
    /\ Len(q1) = Len(q2)
    /\ \A i \in 1..Len(q1) :
           FragmentName[q1[i][1]] \notin names => q1[i] = q2[i]

\* every document that differs from the generator's document only inside
\* the token sub-tree of one component yields, in the same mode, a
\* stylesheet that differs only in the fragments that may(c) names
OnlyOwnFragments(may(_)) ==
    \A c \in DOMAIN call.doc.comp :
        \A t \in DictTrees :
            call.doc.comp[c].dict =>
                LET r == StylesheetGenerator([call.doc EXCEPT !.comp[c] = t],
                                             call.advanced_mode)
                IN /\ r.exc = "none"
                   /\ SameFragmentsExcept(call.qss, r.qss, may(c))

OwnFragment(c) == {c}

\* the fragments that read the tokens of component c
FragmentsReading(c) ==
    IF c = "button" /\ call.advanced_mode THEN {"button", "checkbox_radio"}
    ELSE {c}

\* C24 (as stated): two theme documents that differ only inside one
\* component's token sub-tree yield, in the same mode, stylesheets that
\* differ only inside that component's fragment.
C24_OnlyOwnFragmentDiffers == Generated => OnlyOwnFragments(OwnFragment)

\* C24 (amended): the same, except that in advanced mode the checkbox and
\* radio button fragment may differ as well when the component is button.
C24_OnlyReadingFragmentsDiffer == Generated => OnlyOwnFragments(FragmentsReading)

\* an advanced stylesheet whose document has panel and menu tokens and
\* button tokens with a normal colour, which the checkbox fragment shows
C24_Witness ==
    /\ Generated
    /\ call.advanced_mode
    /\ {"button", "panel", "menu"} \subseteq DOMAIN call.doc.comp
    /\ "normal" \in DOMAIN call.doc.comp["button"].tok
    /\ "background" \in DOMAIN call.doc.comp["panel"].tok
    /\ call.qss[13][4] = call.doc.comp["button"].tok["normal"]
    /\ call.qss[2][2] = call.qss[13][4]

-----------------------------------------------------------------------------
(* What modifies the settings file and the registry's selection.           *)

ControllerGetters ==
    {"get_available_themes", "get_current_theme_name", "get_current_stylesheet"}

\* controller.get_available_themes(), which asks the loader and so loads
\* the file when nothing is cached; controller.get_current_theme_name() and
\* controller.get_current_stylesheet(), which return the attributes
Getter ==
    \E getter \in ControllerGetters :
        LET r == get_available_themes(file, settings)
        IN /\ settings' = IF getter = "get_available_themes" THEN r.settings
                          ELSE settings
           /\ last' = IF getter = "get_available_themes"
                      THEN Call(getter, "", FALSE, Outcome(r.exc), r.exc)
                      ELSE Call(getter, "", FALSE, "", "none")
           /\ UNCHANGED <<file, current_theme_name, current_stylesheet,
                          detVars, otherVars>>

\* the environments of the frame specification: no binding, or PySide6
FrameEnvs ==
    { e \in ImportEnvs :
        e["PySide6"] \in {NotInstalled, Installed(Version(<<6, 0, 0>>))} }

\* the settings file of the frame specification: light fails validation,
\* dark passes
FrameFiles ==
    { FileJson([current_theme |-> "light", last_selected_theme |-> "light",
                available_themes |-> [light |-> DocInvalid, dark |-> DocDark]]) }

\* the controller module has been imported, a ThemeController constructed
\* on a settings file that no other program writes
InitFrame ==
    /\ file \in FrameFiles
    /\ env \in FrameEnvs
    /\ settings = NewController(file).settings
    /\ current_theme_name = NewController(file).name
    /\ current_stylesheet = NewController(file).qss
    /\ last = Call("__init__", "", FALSE, "None", "")
    /\ cached_framework = ImportController(env).cached_framework
    /\ cached_modules = ImportController(env).cached_modules
    /\ detection_attempted = ImportController(env).detection_attempted
    /\ next_id = ImportController(env).next_id
    /\ det_last = DetCall("detect_qt_framework", FALSE, ImportController(env),
                          "", ImportController(env).exc)
    /\ qt_available = (ImportController(env).exc = "none")
    \* the sink accepts one more stylesheet
    /\ sink = [n |-> MaxPushes - 1, text |-> <<>>]
    /\ ExportIdle /\ PeerIdle /\ PureIdle

NextFrame ==
    \/ SetTheme
    \/ ReloadThemes
    \/ Getter
    \/ ApplyThemeToWidget
    \/ ApplyThemeToApplication
    \/ StandaloneApplyThemeToWidget
    \/ StandaloneApplyThemeToApplication
    \/ ExportQss

SpecFrame == InitFrame /\ [][NextFrame]_vars

\* current_theme and last_selected_theme as the registry holds them
Registry(s) ==
    IF s.loaded THEN <<s.cat.current_theme, s.cat.last_selected_theme>>
    ELSE <<>>

\* C25: the settings file and the registry's current_theme and
\* last_selected_theme change only in a set_theme call with
\* save_settings=True that passes the existence and validation checks;
\* set_theme(save_settings=False), set_theme calls failing those checks,
\* the apply methods and functions, export_qss, reload_themes and the
\* getters leave them as they are.
C25_OnlySavingSetThemeWrites ==
    [][(file' # file \/ Registry(settings') # Registry(settings)) =>
          /\ last'.op = "set_theme"
          /\ last'.save
          /\ last'.why \in {"set", "save_raised"}]_vars

-----------------------------------------------------------------------------
(* The controller's name and stylesheet belong together.                   *)

\* n and q are the Fallback pair, or q is the stylesheet generated from the
\* document that the registry s (on file f) holds under n
Paired(f, s, n, q) ==
    \/ /\ n \in Sentinels
       /\ q = <<>>
    \/ /\ n \in AvailableKeys(f, s)
       /\ generate_qss(ServedCatalog(f, s).available_themes[n]).exc = "none"
       /\ q = generate_qss(ServedCatalog(f, s).available_themes[n]).qss

\* C26: between the controller's operations current_theme_name and
\* current_stylesheet belong together: every step leaves both as they
\* were, or leaves the Fallback pair (sentinel name, empty stylesheet), or
\* leaves a name together with the stylesheet generated from the document
\* registered under that name at that moment.
C26_NameAndStylesheetPaired ==
    [][\/ /\ current_theme_name' = current_theme_name
          /\ current_stylesheet' = current_stylesheet
       \/ Paired(file', settings', current_theme_name',
                 current_stylesheet')]_vars

\* a set_theme that returned False because the save failed has left the
\* new name with the new stylesheet
C26_Witness ==
    /\ last.op = "set_theme"
    /\ last.why = "save_raised"
    /\ current_theme_name = "dark"
    /\ current_stylesheet = generate_qss(DocDark).qss
    /\ current_stylesheet # generate_qss(DocLight).qss

-----------------------------------------------------------------------------
(* export_qss without a theme name.                                        *)

\* the light theme after its background colour was edited
DocLightEdited == [DocLight EXCEPT !.flat.backgroundColor = "#fafafa"]

\* what another program leaves in the settings file
EditedFiles ==
    { FileMalformed,
      FileJson([current_theme |-> "light", last_selected_theme |-> "light",
                available_themes |-> [light |-> DocLight, dark |-> DocDark]]),
      FileJson([current_theme |-> "light", last_selected_theme |-> "light",
                available_themes |-> [light |-> DocLightEdited,
                                      dark |-> DocDark]]) }

\* another program rewrites the settings file
EditSettingsFile ==
    /\ \E f \in EditedFiles : file' = f
    /\ file' # file
    /\ last' = Call("external_write", "", FALSE, "", "")
    /\ UNCHANGED <<settings, current_theme_name, current_stylesheet, detVars,
                   otherVars>>

\* a ThemeController has been constructed on some settings file; the
\* directory of the output path exists
InitCurrent ==
    /\ file \in EditedFiles
    /\ settings = NewController(file).settings
    /\ current_theme_name = NewController(file).name
    /\ current_stylesheet = NewController(file).qss
    /\ last = Call("__init__", "", FALSE, "None", "")
    /\ DetectorIdle
    /\ ApplyIdle /\ PeerIdle /\ PureIdle
    /\ out = [NoOutput EXCEPT !.dirs = TRUE]

NextCurrent == ExportQss \/ ReloadThemes \/ SetTheme \/ EditSettingsFile

SpecCurrent == InitCurrent /\ [][NextCurrent]_vars

\* C27: whenever export_qss(path) without a theme name returns True, the
\* file at path holds exactly the controller's current stylesheet, also
\* after a failed reload_themes() and after the settings file changed on
\* disk.
C27_ExportsCurrentStylesheet ==
    [][(last'.op = "export_qss" /\ last'.arg = "None" /\ last'.ret = "True") =>
          /\ out'.state = "complete"
          /\ out'.content = current_stylesheet]_vars

-----------------------------------------------------------------------------
(* The availability gate of apply_theme_to_widget and the detector.        *)

\* PySide6 is installed or removed while the program runs
InstallOrRemove == EnvChange /\ env' \in FrameEnvs

\* the controller module has been imported (qt_available is bound), a
\* ThemeController constructed; the module's detector stays in use
InitGate == InitFrame

NextGate ==
    \/ ApplyThemeToWidget
    \/ StandaloneApplyThemeToWidget
    \/ DetectQtFramework
    \/ IsQtAvailable
    \/ ClearCache
    \/ InstallOrRemove

SpecGate == InitGate /\ [][NextGate]_vars

\* C28: at each call of ThemeController.apply_theme_to_widget and of the
\* module-level apply_theme_to_widget, the availability gate lets the call
\* pass exactly when the detector's is_qt_available() would return True at
\* that time, also after clear_qt_cache() or a forced re-detection.
C28_GateAgreesWithDetector ==
    [][last'.op \in {"apply_theme_to_widget", "standalone.apply_theme_to_widget"}
          => (last'.why # "qt_unavailable"
                <=> is_qt_available(env, cached_framework, cached_modules,
                                    detection_attempted, next_id).ret)]_vars

-----------------------------------------------------------------------------
(* The --verbose flag.                                                     *)

\* C29: --verbose does not change the outcome of a command: main called
\* with --verbose ends with the exit code that the same command and
\* arguments give without it, so a successful list with --verbose ends
\* with 0.
C29_VerboseKeepsExitCode ==
    [][(last'.op = "main" /\ call'.verbose) =>
          \E w \in WriteOutcomes \cup ExportOutcomes :
              call'.exit = main(file, out, call'.command, call'.theme,
                                call'.output, FALSE, call'.config,
                                call'.interrupt, w).exit]_vars

-----------------------------------------------------------------------------
(* _validate_version on version strings.  A string is a sequence of        *)
(* characters.                                                             *)

Digits == {"0", "5", "6"}

VersionChars == Digits \cup {".", "a"}

DigitValue(c) == IF c = "0" THEN 0 ELSE IF c = "5" THEN 5 ELSE 6

\* str.split("."): the pieces between the dots, empty pieces included
RECURSIVE split(_)
split(s) ==
    IF \A i \in 1..Len(s) : s[i] # "." THEN <<s>>
    ELSE LET i == CHOOSE k \in 1..Len(s) :
                      s[k] = "." /\ \A j \in 1..(k - 1) : s[j] # "."
         IN <<SubSeq(s, 1, i - 1)>> \o split(SubSeq(s, i + 1, Len(s)))

\* the value of a string of digits
RECURSIVE Decimal(_)
Decimal(x) ==
    IF x = <<>> THEN 0
    ELSE Decimal(SubSeq(x, 1, Len(x) - 1)) * 10 + DigitValue(x[Len(x)])

\* int(x): ValueError for the empty string and for anything but digits
int(x) ==
    IF x = <<>> \/ \E i \in 1..Len(x) : x[i] \notin Digits
    THEN [exc |-> "ValueError", val |-> 0]
    ELSE [exc |-> "none", val |-> Decimal(x)]

\* [int(x) for x in version.split(".")]; a ValueError leaves the try block
parts(version) ==
    LET p == split(version)
    IN IF \E i \in 1..Len(p) : int(p[i]).exc # "none" THEN Unparsable
       ELSE Version([i \in 1..Len(p) |-> int(p[i]).val])

\* the version strings of at most n characters
Strings(n) == UNION { [1..k -> VersionChars] : k \in 0..n }

MaxVersionLen == 3

CurrentVersions ==
    Strings(MaxVersionLen)
        \cup {<<"6", ".", "5", ".", "5">>, <<"6", ".", "0", ".", "0">>,
              <<"5", ".", "6", ".", "6">>}

RequiredVersions ==
    {<<>>, <<"6">>, <<"6", ".", "5">>, <<"5", ".", "6">>, <<"6", ".", "0">>,
     <<"6", ".", "a">>, <<"6", ".", "0", ".", "5">>}

VersionArgs ==
    { [op |-> "args", current |-> c, required |-> r, raised |-> FALSE] :
        c \in CurrentVersions, r \in RequiredVersions }

\* detector._validate_version(framework, current_version, required_version)
ValidateVersion ==
    /\ call.op = "args"
    /\ call' = [call EXCEPT
                  !.op = "_validate_version",
                  !.raised = _validate_version(parts(call.current),
                                               parts(call.required))]
    /\ UNCHANGED <<themeVars, detVars, applyVars, exportVars, peerVars>>

\* the caller checks the same version against another requirement
NextRequirement ==
    /\ call.op = "_validate_version"
    /\ \E r \in RequiredVersions \ {call.required} :
           call' = [call EXCEPT !.op = "args", !.required = r,
                                !.raised = FALSE]
    /\ UNCHANGED <<themeVars, detVars, applyVars, exportVars, peerVars>>

InitVersion ==
    /\ ThemeIdle /\ DetectorIdle /\ ApplyIdle /\ ExportIdle /\ PeerIdle
    /\ call \in VersionArgs

NextVersion == ValidateVersion \/ NextRequirement

SpecVersion == InitVersion /\ [][NextVersion]_vars

\* the positions of the k-th dot-separated component of s
Component(s, k) ==
    { p \in 1..Len(s) :
        /\ s[p] # "."
        /\ Cardinality({ q \in 1..p : s[q] = "." }) = k - 1 }

ComponentCount(s) == Cardinality({ q \in 1..Len(s) : s[q] = "." }) + 1

\* every component of s is a non-empty string of digits
DotSeparatedIntegers(s) ==
    /\ \A p \in 1..Len(s) : s[p] \in Digits \cup {"."}
    /\ \A k \in 1..ComponentCount(s) : Component(s, k) # {}

RECURSIVE Power10(_)
Power10(n) == IF n = 0 THEN 1 ELSE 10 * Power10(n - 1)

RECURSIVE WeightedSum(_, _, _)
WeightedSum(s, all, todo) ==
    IF todo = {} THEN 0
    ELSE LET p == CHOOSE x \in todo : TRUE
         IN DigitValue(s[p]) * Power10(Cardinality({ q \in all : q > p }))
                + WeightedSum(s, all, todo \ {p})

\* the number that the k-th component of s stands for, 0 beyond the last
ComponentValue(s, k) ==
    IF k > ComponentCount(s) THEN 0
    ELSE WeightedSum(s, Component(s, k), Component(s, k))

\* current precedes required when both are padded with zeros
PaddedLess(c, r) ==
    \E i \in 1..Max(ComponentCount(c), ComponentCount(r)) :
        /\ ComponentValue(c, i) < ComponentValue(r, i)
        /\ \A j \in 1..(i - 1) : ComponentValue(c, j) = ComponentValue(r, j)

\* C30: _validate_version raises QtVersionError exactly when both strings
\* are dot-separated integers and current, after the shorter sequence is
\* padded with zeros, is lexicographically less than required; a string
\* with a component that is not an integer passes without raising.
C30_RaisesIffOlder ==
    call.op = "_validate_version" =>
        (call.raised <=> /\ DotSeparatedIntegers(call.current)
                         /\ DotSeparatedIntegers(call.required)
                         /\ PaddedLess(call.current, call.required))

\* "6" checked against "6.5": equal until the padding decides
C30_Witness ==
    /\ call.op = "_validate_version"
    /\ call.current = <<"6">>
    /\ call.required = <<"6", ".", "5">>
    /\ call.raised

====
